---- MODULE Spec2Model ----
(***************************************************************************)
(* Model of the subtitle backend: cue building and the transcription job   *)
(* (transcribe.js), the streaming upload with retries                      *)
(* (cloudinaryClient.js), the download helper, the upload routes, the     *)
(* translation route and the video proxy (index.js and its older copy     *)
(* index2.js), the timestamp encoders and the two serializers.             *)
(*                                                                         *)
(* Calls to the local file system (unlink, writeFile, mkdir) are taken to  *)
(* succeed as a whole; calls over the network can fail.                    *)
(*                                                                         *)
(* Times.  The provider gives word times as whole milliseconds and the     *)
(* code divides them by 1000.  A seconds value is represented here by its  *)
(* number of milliseconds (4.0 s is 4000), so that the module needs no     *)
(* fractions; the one place where binary64 rounding of x / 1000 changes a  *)
(* result of the code, the comparison with 5, is modelled by Exceeds5.     *)
(***************************************************************************)
EXTENDS Integers, Sequences, FiniteSets, TLC

VARIABLES
    \* transcribe.js, transcribeWithAssemblyAI
    result,      \* the provider's final poll result: words, text, audio_duration
    segments,    \* the segments built from it
    cuePc,       \* "idle" | "completed" (polled, nothing built yet) | "built" |
                 \* "rebuilt" (built by the translation route)
    \* cloudinaryClient.js, uploadRemoteUrlToCloudinaryStream
    remote,      \* what the remote URL answers to the 1st, 2nd, ... GET
    sPc,         \* "idle" | "attempting" | "waiting" | "returned" | "thrown" | "rejected"
    attempt,     \* the loop variable
    lastErr,     \* message of the last error caught, "null" when none
    requests,    \* number of GETs issued so far
    sDelays,     \* the delays (ms) slept so far, in order
    \* index.js / index2.js, downloadVideoFromUrl
    dPc,         \* "idle" | "requesting" | "piping" | "returned" | "thrown"
    dHeader,     \* Content-Length of the response, Absent when none (yet)
    dCreated,    \* TRUE once createWriteStream(filePath) has been called
    dErr,        \* message of the error thrown, "null" when none
    \* index.js / index2.js, the routes
    req,         \* the request: route and what it carries
    rPc,         \* "received" | "fetching" | "downloading" | "uploading" |
                 \* "transcribing" | "responded"
    tempFile,    \* the route's tempFile (filePath for /upload-audio), "null" when unset
    cloudResult, \* "null" | "asset"
    disk,        \* size of the local file at each path, Absent when there is none
    response,    \* the response sent: status (0 when none yet) and error
    calls,       \* the calls to collaborators issued so far, in order
    errors,      \* the messages of the errors these calls raised, in order
    \* transcribe.js, transcribeAndSaveVtt and the transcription job
    API_KEY,     \* TRUE when process.env.ASSEMBLYAI_API_KEY is set
    jobPc,       \* "idle" | "upload" | "submit" | "polling" | "completed" |
                 \* "failed" (the poll reported error) | "aborted" (any other throw)
    provider,    \* the transcript at the provider: "none" before the submit,
                 \* then what a poll of it gives
    submits,     \* number of POST /v2/transcript issued
    polls,       \* number of GET /v2/transcript/:id issued, counted up to MaxPolls
    resultStatus,\* result.status of the last poll, "none" when there is none
    resultError, \* result.error of the last poll, "" when there is none
    jobErr,      \* message of the error the job threw, "" when none
    subtitles,   \* names of the files in public/subtitles
    \* index.js, POST /translate-subtitles
    LIBRE_URL,   \* TRUE when process.env.LIBRE_URL is set
    body,        \* req.body: segments, targetLang, detectedLanguage, transcriptId
    xPc,         \* "idle" | "received" | "fetching" | "primary" | "mirror" |
                 \* "sleep" | "writing" | "writing-unchanged" | "responded"
    tgtLang,     \* normLangBackend(targetLang)
    srcLang,     \* the source language as resolved so far
    toTranslateSegments, \* the segments the handler works on
    translated,  \* the output array, filled segment by segment
    segIndex,    \* position of the segment being translated, from 1
    mirrorIndex, \* position in MIRRORS of the mirror about to be called
    cueCalls,    \* the calls to providers for the current segment, in order:
                 \* the provider and the text it gave, <<>> when none
    providerCalls, \* number of calls to translation providers so far
    tResponse,   \* the response: status (0 when none yet), ok, error, segments
    \* index.js / index2.js, GET /proxy/video
    pReq,        \* the request: req.query.url and req.headers.range, "" when absent
    pPc,         \* "idle" | "received" | "awaiting" (inside await axios.get) |
                 \* "streaming" (the handler returned after pipe) | "done"
    upstream,    \* the upstream fetch: "none" | "pending" | "open" (response.data
                 \* readable) | "ended" | "errored" | "failed" (no response) |
                 \* "destroyed"
    upstreamRes, \* the upstream response: status and headers, status 0 when none
    clientAborted, \* TRUE once the client has dropped the request
    abortListener, \* TRUE once req.on("abort", ...) has been executed
    pResponse,   \* res: status (0 when none set), headers set, headersSent,
                 \* error of the JSON body, ended
    \* the timestamp encoders and the serializers, called on their own
    call,        \* the function called and its arguments, fn "none" when idle
    returned,    \* the values the successive calls returned, in order
    calledAt,    \* the clock value at each of these calls, in order
    now          \* the clock (Date.now()), which moves between calls

cueVars == <<result, segments, cuePc>>
streamVars == <<remote, sPc, attempt, lastErr, requests, sDelays>>
downloadVars == <<dPc, dHeader, dCreated, dErr>>
routeVars == <<req, rPc, tempFile, cloudResult, disk, response, calls,
               errors>>
jobVars == <<API_KEY, jobPc, provider, submits, polls, resultStatus,
             resultError, jobErr, subtitles>>
translateVars == <<LIBRE_URL, body, xPc, tgtLang, srcLang, toTranslateSegments,
                   translated, segIndex, mirrorIndex, cueCalls, providerCalls,
                   tResponse>>
proxyVars == <<pReq, pPc, upstream, upstreamRes, clientAborted, abortListener,
               pResponse>>
vttVars == <<call, returned, calledAt, now>>
vars == <<result, segments, cuePc, remote, sPc, attempt, lastErr, requests,
          sDelays, dPc, dHeader, dCreated, dErr, req, rPc, tempFile,
          cloudResult, disk, response, calls, errors, API_KEY, jobPc, provider,
          submits, polls, resultStatus, resultError, jobErr, subtitles,
          LIBRE_URL, body, xPc, tgtLang, srcLang, toTranslateSegments,
          translated, segIndex, mirrorIndex, cueCalls, providerCalls,
          tResponse, pReq, pPc, upstream, upstreamRes, clientAborted,
          abortListener, pResponse, call, returned, calledAt, now>>

----------------------------------------------------------------------------
(* Bounds of the model *)

\* longest word list of a provider result
MaxWords == 3

\* word times (ms) the provider may report
TimeGrid == {0, 3000, 3002, 4000, 8002, 9000}

\* word texts the provider may report
WordTexts == {"hi", "there"}

\* result.audio_duration: absent, or a number of seconds (in ms)
Absent == -1
Durations == {Absent, 0, 500, 7000}

\* result.text: absent/empty, or a transcript
FullTexts == {"", "hi there"}

----------------------------------------------------------------------------
(* Provider results *)

\* a word: end >= start
Words == {w \in [start : TimeGrid, end : TimeGrid, text : WordTexts] :
            w.start <= w.end}

\* word lists of at most n words, in temporal order and not overlapping
RECURSIVE WordLists(_)
WordLists(n) ==
    IF n = 0 THEN {<<>>}
    ELSE LET shorter == WordLists(n - 1)
             longest == {x \in shorter : Len(x) = n - 1}
         IN  shorter \cup
             UNION {{Append(ws, w) : w \in {v \in Words :
                        Len(ws) = 0 \/ ws[Len(ws)].end <= v.start}} :
                    ws \in longest}

ProviderResults ==
    {[words |-> ws, text |-> t, audio_duration |-> d] :
        ws \in WordLists(MaxWords),
        t \in FullTexts, d \in Durations}

----------------------------------------------------------------------------
(* transcribe.js: building segments from the poll result *)

\* starts s (ms) of TimeGrid for which, in binary64,
\* (s + 5000) / 1000 - s / 1000 is 5.000000000000001 and not 5
\* (8.002 - 3.002 is; 5 - 0, 8 - 3, 9 - 4 are exact)
Binary64Above5 == {3002}

\* segment.end - blockTime > 5, with segment.end = endMs / 1000 and
\* blockTime = blockMs / 1000 computed in binary64
Exceeds5(endMs, blockMs) ==
    \/ endMs - blockMs > 5000
    \/ endMs - blockMs = 5000 /\ blockMs \in Binary64Above5

\* if (segment.text.length > 0) segment.text += " "; segment.text += w.text
AppendWord(text, w) ==
    IF Len(text) > 0 THEN text \o " " \o w.text ELSE text \o w.text

\* the segment that replaces the open one after a push
SeedSegment(w) == [start |-> w.start, end |-> w.end, text |-> w.text]

\* the for loop over result.words, from word i on: st holds the loop's
\* variables segment, blockTime and segments
RECURSIVE WordLoop(_, _, _)
WordLoop(ws, i, st) ==
    IF i > Len(ws) THEN st
    ELSE LET w == ws[i]
             grown == [st.segment EXCEPT !.text = AppendWord(@, w),
                                         !.end = w.end]
         IN  IF Exceeds5(grown.end, st.blockTime)
             THEN WordLoop(ws, i + 1,
                           [segment |-> SeedSegment(w),
                            blockTime |-> w.start,
                            segments |-> Append(st.segments, grown)])
             ELSE WordLoop(ws, i + 1, [st EXCEPT !.segment = grown])

\* FallbackEnd without the floor of one second
FallbackEndNoFloor(d) == IF d = Absent THEN 0 ELSE d

\* Math.max(result.audio_duration || 0, 1), in ms
FallbackEnd(d) ==
    LET given == IF d = Absent THEN 0 ELSE d
    IN  IF given > 1000 THEN given ELSE 1000

\* the whole "Build segments" block
BuildSegments(r) ==
    IF Len(r.words) > 0
    THEN LET st == WordLoop(r.words, 1,
                     [segment |-> [start |-> r.words[1].start, end |-> Absent,
                                   text |-> ""],
                      blockTime |-> r.words[1].start,
                      segments |-> <<>>])
         IN  IF st.segment.text # ""
             THEN Append(st.segments, st.segment)
             ELSE st.segments
    ELSE IF r.text # ""
         THEN <<[start |-> 0, end |-> FallbackEnd(r.audio_duration),
                 text |-> r.text]>>
         ELSE <<>>

CueIdle ==
    /\ result = [words |-> <<>>, text |-> "", audio_duration |-> Absent]
    /\ segments = <<>>
    /\ cuePc = "idle"

CueInit ==
    /\ result \in ProviderResults
    /\ segments = <<>>
    /\ cuePc = "completed"

\* transcribeWithAssemblyAI / transcribeWithAssemblyAIAudioUrl after the
\* poll loop has ended with status "completed"
Transcribe ==
    /\ cuePc = "completed"
    /\ segments' = BuildSegments(result)
    /\ cuePc' = "built"
    /\ UNCHANGED result
    /\ UNCHANGED <<streamVars, downloadVars, routeVars, jobVars, translateVars,
                   proxyVars, vttVars>>

----------------------------------------------------------------------------
(* index.js, POST /translate-subtitles: building segments from the words   *)
(* of a fetched transcript (lines 748-776)                                 *)

\* the time NaN: (w.end || w.to) / 1000 and (w.start || w.from) / 1000 are
\* undefined / 1000 for a word of the provider whose time is 0
NaNMs == 0 - 2
OrOther(ms) == IF ms = 0 THEN NaNMs ELSE ms

\* seg.end - blockTime > 5: false as soon as one side is NaN
RebuildExceeds5(endMs, blockMs) ==
    /\ endMs # NaNMs
    /\ blockMs # NaNMs
    /\ Exceeds5(endMs, blockMs)

\* the for loop over transcript.words, from word i on
RECURSIVE RebuildLoop(_, _, _)
RebuildLoop(ws, i, st) ==
    IF i > Len(ws) THEN st
    ELSE LET w == ws[i]
             grown == [st.seg EXCEPT !.text = AppendWord(@, w),
                                     !.end = OrOther(w.end)]
         IN  IF RebuildExceeds5(grown.end, st.blockTime)
             THEN RebuildLoop(ws, i + 1,
                              [seg |-> [start |-> OrOther(w.start),
                                        end |-> OrOther(w.end),
                                        text |-> w.text],
                               blockTime |-> OrOther(w.start),
                               built |-> Append(st.built, grown)])
             ELSE RebuildLoop(ws, i + 1, [st EXCEPT !.seg = grown])

\* Math.max(transcript.audio_duration || 1, 1), in ms
RebuildFallbackEnd(d) ==
    LET given == IF d = Absent \/ d = 0 THEN 1000 ELSE d
    IN  IF given > 1000 THEN given ELSE 1000

\* the array built from the transcript t
BuiltFromTranscript(t) ==
    IF Len(t.words) > 0
    THEN LET st == RebuildLoop(t.words, 1,
                     [seg |-> [start |-> t.words[1].start, end |-> Absent,
                               text |-> ""],
                      blockTime |-> t.words[1].start,
                      built |-> <<>>])
         IN  IF st.seg.text # ""
             THEN Append(st.built, st.seg)
             ELSE st.built
    ELSE IF t.text # ""
         THEN <<[start |-> 0, end |-> RebuildFallbackEnd(t.audio_duration),
                 text |-> t.text]>>
         ELSE <<>>

\* the GET of the transcript has answered with the provider's result
Rebuild ==
    /\ cuePc = "completed"
    /\ segments' = BuiltFromTranscript(result)
    /\ cuePc' = "rebuilt"
    /\ UNCHANGED result
    /\ UNCHANGED <<streamVars, downloadVars, routeVars, jobVars, translateVars,
                   proxyVars, vttVars>>

----------------------------------------------------------------------------
(* cloudinaryClient.js: uploadRemoteUrlToCloudinaryStream *)

\* const ATTEMPTS = 3
AttemptsTwo == 1 + 1
ATTEMPTS == 3

\* what one GET plus the piping into upload_stream can end in
Answers == {"ok", "status500", "status404", "network", "zero-length",
            "stream-error", "upload-error"}

\* the message of the error an attempt throws
ErrorOf(answer) ==
    CASE answer = "status500"    -> "Remote returned status 500"
      [] answer = "status404"    -> "Remote returned status 404"
      [] answer = "network"      -> "connect ECONNREFUSED"
      [] answer = "zero-length"  -> "Remote content-length is zero"
      [] answer = "stream-error" -> "Stream error while reading remote: aborted"
      [] answer = "upload-error" -> "Cloudinary upload_stream error: failed"

\* the remote's answers to as many GETs as the function can issue, and one more
RemoteScripts == [1..(ATTEMPTS + 1) -> Answers]

\* Math.round(Math.random() * 500 + ...): the jitter that ends up in the delay
Jitters == {0, 250, 500}

RECURSIVE Pow2(_)
Pow2(n) == IF n = 0 THEN 1 ELSE 2 * Pow2(n - 1)

\* a delay that grows by one second per attempt instead of doubling
LinearDelay(a, jitter) == a * 1000 + jitter

\* Math.round(Math.pow(2, attempt) * 1000 + Math.random() * 500)
BackoffDelay(a, jitter) == Pow2(a) * 1000 + jitter

StreamIdle ==
    /\ remote = [k \in 1..(ATTEMPTS + 1) |-> "ok"]
    /\ sPc = "idle"
    /\ attempt = 0
    /\ lastErr = "null"
    /\ requests = 0
    /\ sDelays = <<>>

StreamInit ==
    /\ remote \in RemoteScripts
    /\ sPc = "idle"
    /\ attempt = 0
    /\ lastErr = "null"
    /\ requests = 0
    /\ sDelays = <<>>

\* the call: an invalid remoteUrl is rejected at once, otherwise the loop
\* starts with attempt = 1 and issues the first GET
StreamCall ==
    /\ sPc = "idle"
    /\ \E valid \in BOOLEAN :
          IF valid
          THEN /\ sPc' = "attempting"
               /\ attempt' = 1
               /\ requests' = 1
               /\ UNCHANGED lastErr
          ELSE /\ sPc' = "rejected"
               /\ lastErr' = "Invalid remoteUrl"
               /\ UNCHANGED <<attempt, requests>>
    /\ UNCHANGED <<remote, sDelays>>
    /\ UNCHANGED <<cueVars, downloadVars, routeVars, jobVars, translateVars,
                   proxyVars, vttVars>>

\* the awaited GET and upload of this attempt succeed: return result
StreamAttemptOk ==
    /\ sPc = "attempting"
    /\ remote[requests] = "ok"
    /\ sPc' = "returned"
    /\ UNCHANGED <<remote, attempt, lastErr, requests, sDelays>>
    /\ UNCHANGED <<cueVars, downloadVars, routeVars, jobVars, translateVars,
                   proxyVars, vttVars>>

\* the attempt throws: the catch block records the error and, when attempts
\* are left, computes the delay and starts to sleep; after the last attempt
\* the loop ends and the function throws lastErr's message
StreamAttemptFail ==
    /\ sPc = "attempting"
    /\ remote[requests] # "ok"
    /\ lastErr' = ErrorOf(remote[requests])
    /\ IF attempt < ATTEMPTS
       THEN \E jitter \in Jitters :
               /\ sDelays' = Append(sDelays, BackoffDelay(attempt, jitter))
               /\ sPc' = "waiting"
       ELSE /\ sPc' = "thrown"
            /\ UNCHANGED sDelays
    /\ UNCHANGED <<remote, attempt, requests>>
    /\ UNCHANGED <<cueVars, downloadVars, routeVars, jobVars, translateVars,
                   proxyVars, vttVars>>

\* the sleep ends: continue, attempt++, next GET
StreamBackoffElapsed ==
    /\ sPc = "waiting"
    /\ attempt' = attempt + 1
    /\ requests' = requests + 1
    /\ sPc' = "attempting"
    /\ UNCHANGED <<remote, lastErr, sDelays>>
    /\ UNCHANGED <<cueVars, downloadVars, routeVars, jobVars, translateVars,
                   proxyVars, vttVars>>

StreamNext ==
    \/ StreamCall
    \/ StreamAttemptOk
    \/ StreamAttemptFail
    \/ StreamBackoffElapsed

----------------------------------------------------------------------------
(* index.js / index2.js: downloadVideoFromUrl *)

\* const MAX_BYTES = 800 * 1024 * 1024
MAX_BYTES == 800 * 1024 * 1024

\* local paths: the multer upload, the yt-dlp output, the download target
Paths == {"upload", "yt", "dl"}

\* response.status
Statuses == {200, 404, 500}

\* the Content-Length header: none, or a number of bytes
ContentLengths == {Absent, 0, 1, MAX_BYTES, MAX_BYTES + 1}

\* bytes the body really holds, and bytes written when the stream breaks
BodySizes == {0, 1, MAX_BYTES, MAX_BYTES + 1}
PartialSizes == {0, 1}

\* fs.unlinkSync(path)
Unlink(d, path) == [d EXCEPT ![path] = Absent]

\* a size check that never fires
DeclaredTooLargeOff(cl) == FALSE

\* contentLength && contentLength > MAX_BYTES
DeclaredTooLarge(cl) == cl # Absent /\ cl # 0 /\ cl > MAX_BYTES

\* a catch block that leaves the file where it is
CatchNoCleanup(d) == d

\* catch (err) { if (fs.existsSync(filePath)) fs.unlinkSync(filePath) ... }
CatchCleanup(d) == IF d["dl"] # Absent THEN Unlink(d, "dl") ELSE d

DownloadIdle ==
    /\ dPc = "idle"
    /\ dHeader = Absent
    /\ dCreated = FALSE
    /\ dErr = "null"

\* axios resolves with a response: status check, declared-size check, then
\* createWriteStream and the start of the pipeline; a failed check throws
\* into the catch block
DownloadResponse ==
    /\ dPc = "requesting"
    /\ \E st \in Statuses, cl \in ContentLengths :
          /\ dHeader' = cl
          /\ IF st < 200 \/ st >= 300
             THEN /\ dErr' = "Remote returned status"
                  /\ dPc' = "thrown"
                  /\ disk' = CatchCleanup(disk)
                  /\ UNCHANGED dCreated
             ELSE IF DeclaredTooLarge(cl)
             THEN /\ dErr' = "Remote file too large"
                  /\ dPc' = "thrown"
                  /\ disk' = CatchCleanup(disk)
                  /\ UNCHANGED dCreated
             ELSE /\ dCreated' = TRUE
                  /\ disk' = [disk EXCEPT !["dl"] = 0]
                  /\ dPc' = "piping"
                  /\ UNCHANGED dErr
    /\ UNCHANGED <<req, rPc, tempFile, cloudResult, response, calls, errors>>
    /\ UNCHANGED <<cueVars, streamVars, jobVars, translateVars,
                   proxyVars, vttVars>>

\* axios rejects: network error, or the 2 minute timer aborted the request
\* (the error is rethrown as it is unless its name is AbortError)
DownloadNoResponse ==
    /\ dPc = "requesting"
    /\ \E msg \in {"connect ECONNREFUSED", "canceled",
                    "Download aborted (timeout)"} : dErr' = msg
    /\ dPc' = "thrown"
    /\ disk' = CatchCleanup(disk)
    /\ UNCHANGED <<dHeader, dCreated>>
    /\ UNCHANGED <<req, rPc, tempFile, cloudResult, response, calls, errors>>
    /\ UNCHANGED <<cueVars, streamVars, jobVars, translateVars,
                   proxyVars, vttVars>>

\* the pipeline ends with n bytes on disk: statSync, the two size checks
\* (each unlinks and throws into the catch block), return filePath
DownloadPipeEnd ==
    /\ dPc = "piping"
    /\ \E n \in BodySizes :
          LET written == [disk EXCEPT !["dl"] = n]
          IN  IF n = 0
              THEN /\ dErr' = "Downloaded file is empty"
                   /\ dPc' = "thrown"
                   /\ disk' = CatchCleanup(Unlink(written, "dl"))
              ELSE IF n > MAX_BYTES
              THEN /\ dErr' = "Downloaded file exceeds allowed size after download"
                   /\ dPc' = "thrown"
                   /\ disk' = CatchCleanup(Unlink(written, "dl"))
              ELSE /\ dPc' = "returned"
                   /\ disk' = written
                   /\ UNCHANGED dErr
    /\ UNCHANGED <<dHeader, dCreated>>
    /\ UNCHANGED <<req, rPc, tempFile, cloudResult, response, calls, errors>>
    /\ UNCHANGED <<cueVars, streamVars, jobVars, translateVars,
                   proxyVars, vttVars>>

\* the pipeline rejects (stream error, or the timer aborted the request)
\* with some bytes already written
DownloadPipeError ==
    /\ dPc = "piping"
    /\ \E n \in PartialSizes,
          msg \in {"aborted", "canceled", "Download aborted (timeout)"} :
          /\ dErr' = msg
          /\ disk' = CatchCleanup([disk EXCEPT !["dl"] = n])
    /\ dPc' = "thrown"
    /\ UNCHANGED <<dHeader, dCreated>>
    /\ UNCHANGED <<req, rPc, tempFile, cloudResult, response, calls, errors>>
    /\ UNCHANGED <<cueVars, streamVars, jobVars, translateVars,
                   proxyVars, vttVars>>

----------------------------------------------------------------------------
(* transcribe.js: transcribeAndSaveVtt, transcribeWithAssemblyAI and        *)
(* transcribeWithAssemblyAIAudioUrl as one transcription job                *)

\* polls counted before the counter stops growing
MaxPolls == 2

\* what a GET of the transcript can meet: the four statuses of the
\* provider, a JSON body without status, a request or body that fails
ProviderStates ==
    {"queued", "processing", "completed", "error", "no-status", "unreachable"}

\* result.error of a transcript in error
ProviderErrors == {"Audio could not be decoded", "Language not supported"}

\* body of a response that is not ok
ErrTexts == {"Bad Request"}

\* result.status as the loop reads it
PollStatus(p) == IF p = "no-status" THEN "none" ELSE p

\* a loop that takes processing for the end of the job
JobAfterPollEager(status) ==
    IF status \in {"completed", "processing"} THEN "completed"
    ELSE IF status = "error" THEN "failed"
    ELSE "polling"

\* a loop that gives up on the first status that is not final
JobAfterPollGiveUp(status) ==
    IF status = "completed" THEN "completed" ELSE "failed"

\* the two tests of the poll loop: break on completed, throw on error, go
\* round again on anything else
JobAfterPoll(status) ==
    IF status = "completed" THEN "completed"
    ELSE IF status = "error" THEN "failed"
    ELSE "polling"

\* an error that drops what the provider said
FailureMessageGeneric(e) == "AssemblyAI transcription failed"

\* new Error("AssemblyAI transcription failed: " + result.error)
FailureMessage(e) == "AssemblyAI transcription failed: " \o e

\* a job that submits again after a submit that is not ok
AfterSubmitFailureRetry == "submit"

\* a submit that is not ok throws out of the job
AfterSubmitFailure == "aborted"

\* a transcribeAndSaveVtt that writes the file whatever the transcriber did
WritesVttAlways(pc) == TRUE

\* fs.writeFileSync(vttFilePath, ...) stands after the await of the
\* transcriber: it runs only when the transcriber has returned
WritesVtt(pc) == pc = "completed"

\* `${baseFilename}-${Date.now()}.vtt`
VttName(remoteUrl) == IF remoteUrl THEN "remote.vtt" ELSE "upload.vtt"

\* a route that goes on while the transcriber is still at work
JobTerminalEager ==
    {"completed", "failed", "aborted", "upload", "submit", "polling"}

\* the states in which the await of transcribeAndSaveVtt settles
JobTerminal == {"completed", "failed", "aborted"}

JobInit ==
    /\ API_KEY \in BOOLEAN
    /\ jobPc = "idle"
    /\ provider = "none"
    /\ submits = 0
    /\ polls = 0
    /\ resultStatus = "none"
    /\ resultError = ""
    /\ jobErr = ""
    /\ subtitles = {}

JobIdle ==
    /\ API_KEY = TRUE
    /\ jobPc = "idle"
    /\ provider = "none"
    /\ submits = 0
    /\ polls = 0
    /\ resultStatus = "none"
    /\ resultError = ""
    /\ jobErr = ""
    /\ subtitles = {}

\* a transcribeAndSaveVtt that is always given the local file, whatever
\* asset the acquisition produced
StartJobFromFile(remoteUrl, fileThere) ==
    /\ IF ~API_KEY
       THEN /\ jobPc' = "aborted"
            /\ jobErr' = "ASSEMBLYAI_API_KEY missing in .env"
       ELSE IF ~fileThere
       THEN /\ jobPc' = "aborted"
            /\ jobErr' = "File not found: upload"
       ELSE /\ jobPc' = "upload"
            /\ UNCHANGED jobErr
    /\ UNCHANGED <<API_KEY, provider, submits, polls, resultStatus,
                   resultError, subtitles>>

\* transcribeAndSaveVtt({ remoteUrl }) or ({ filePath }) up to the first
\* await of the transcriber: the API key test and, for a file, the
\* existsSync test
StartJob(remoteUrl, fileThere) ==
    /\ IF ~API_KEY
       THEN /\ jobPc' = "aborted"
            /\ jobErr' = "ASSEMBLYAI_API_KEY missing in .env"
       ELSE IF remoteUrl
       THEN /\ jobPc' = "submit"
            /\ UNCHANGED jobErr
       ELSE IF ~fileThere
       THEN /\ jobPc' = "aborted"
            /\ jobErr' = "File not found: upload"
       ELSE /\ jobPc' = "upload"
            /\ UNCHANGED jobErr
    /\ UNCHANGED <<API_KEY, provider, submits, polls, resultStatus,
                   resultError, subtitles>>

\* POST /v2/upload of the local file settles
JobUpload ==
    /\ jobPc = "upload"
    /\ \E out \in {"ok", "network"} \cup ErrTexts :
          IF out = "ok"
          THEN /\ jobPc' = "submit"
               /\ UNCHANGED jobErr
          ELSE /\ jobPc' = "aborted"
               /\ jobErr' = IF out = "network" THEN "fetch failed"
                            ELSE "AssemblyAI upload failed: " \o out
    /\ UNCHANGED <<API_KEY, provider, submits, polls, resultStatus,
                   resultError, subtitles>>
    /\ UNCHANGED <<cueVars, streamVars, downloadVars, routeVars, translateVars,
                   proxyVars, vttVars>>

\* POST /v2/transcript is issued and settles
JobSubmit ==
    /\ jobPc = "submit"
    /\ submits' = submits + 1
    /\ \E out \in {"ok", "network"} \cup ErrTexts :
          IF out = "ok"
          THEN /\ jobPc' = "polling"
               /\ provider' = "queued"
               /\ UNCHANGED jobErr
          ELSE /\ jobPc' = AfterSubmitFailure
               /\ jobErr' = IF out = "network" THEN "fetch failed"
                            ELSE "AssemblyAI transcript submit failed: " \o out
               /\ UNCHANGED provider
    /\ UNCHANGED <<API_KEY, polls, resultStatus, resultError, subtitles>>
    /\ UNCHANGED <<cueVars, streamVars, downloadVars, routeVars, translateVars,
                   proxyVars, vttVars>>

\* one turn of while (true): the 2.5 s sleep, the GET and the two tests
JobPoll ==
    /\ jobPc = "polling"
    /\ polls' = IF polls < MaxPolls THEN polls + 1 ELSE polls
    /\ IF provider = "unreachable"
       THEN /\ jobPc' = "aborted"
            /\ jobErr' = "fetch failed"
            /\ UNCHANGED <<resultStatus, resultError>>
       ELSE /\ resultStatus' = PollStatus(provider)
            /\ jobPc' = JobAfterPoll(PollStatus(provider))
            /\ IF PollStatus(provider) = "error"
               THEN \E e \in ProviderErrors :
                       /\ resultError' = e
                       /\ jobErr' = FailureMessage(e)
               ELSE UNCHANGED <<resultError, jobErr>>
    /\ UNCHANGED <<API_KEY, provider, submits, subtitles>>
    /\ UNCHANGED <<cueVars, streamVars, downloadVars, routeVars, translateVars,
                   proxyVars, vttVars>>

\* the provider works on the transcript between two polls; completed and
\* error are final
ProviderStep ==
    /\ provider \notin {"none", "completed", "error"}
    /\ provider' \in ProviderStates \ {provider}
    /\ UNCHANGED <<API_KEY, jobPc, submits, polls, resultStatus, resultError,
                   jobErr, subtitles>>
    /\ UNCHANGED <<cueVars, streamVars, downloadVars, routeVars, translateVars,
                   proxyVars, vttVars>>

----------------------------------------------------------------------------
(* index.js / index2.js: POST /upload-from-url, index.js: POST /upload-audio *)

UrlHandlers == {"index:/upload-from-url", "index2:/upload-from-url"}

\* req.body.url: none, text that is no URL, another scheme, loopback and
\* private hosts, a video-hosting URL, any other URL
UrlInputs ==
    {"", "not a url", "ftp://example.com/v.mp4",
     "http://localhost/v.mp4", "http://127.0.0.1/v.mp4", "http://[::1]/v.mp4",
     "http://192.168.1.10/v.mp4", "http://nas.local/v.mp4",
     "https://youtube.com/watch", "https://example.com/v.mp4"}

\* String.prototype.indexOf(sub, from), positions counted from 1, 0 if none
RECURSIVE IndexOf(_, _, _)
IndexOf(s, sub, from) ==
    IF from + Len(sub) - 1 > Len(s) THEN 0
    ELSE IF SubSeq(s, from, from + Len(sub) - 1) = sub THEN from
    ELSE IndexOf(s, sub, from + 1)

\* String.prototype.includes / endsWith
Includes(s, sub) == IndexOf(s, sub, 1) # 0
EndsWith(s, suffix) ==
    /\ Len(s) >= Len(suffix)
    /\ SubSeq(s, Len(s) - Len(suffix) + 1, Len(s)) = suffix

\* new URL(u) for URLs without port, credentials or upper case: it throws
\* (ok = FALSE) without "scheme://"; protocol keeps its colon, hostname is
\* what stands before the first slash, an IPv6 literal with its brackets
ParseUrl(u) ==
    LET c == IndexOf(u, "://", 1)
        rest == SubSeq(u, c + 3, Len(u))
        slash == IndexOf(rest, "/", 1)
    IN  IF c <= 1
        THEN [ok |-> FALSE, protocol |-> "", hostname |-> ""]
        ELSE [ok |-> TRUE,
              protocol |-> SubSeq(u, 1, c),
              hostname |-> IF slash = 0 THEN rest
                           ELSE SubSeq(rest, 1, slash - 1)]

\* the hostname test of isExternalHttpUrl
DisallowedHost(h) ==
    \/ h = "localhost"
    \/ h = "127.0.0.1"
    \/ h = "::1"
    \/ EndsWith(h, ".local")

isExternalHttpUrl(u) ==
    LET parsed == ParseUrl(u)
    IN  /\ parsed.ok
        /\ parsed.protocol \in {"http:", "https:"}
        /\ ~DisallowedHost(parsed.hostname)

\* url.includes("youtube.com") || url.includes("youtu.be")
isYT(u) == Includes(u, "youtube.com") \/ Includes(u, "youtu.be")

\* req.file
FileInputs == {"no-file", "file"}

Requests ==
    [handler : UrlHandlers, input : UrlInputs]
        \cup [handler : {"index:/upload-audio"}, input : FileInputs]

\* if (tempFile && fs.existsSync(tempFile)) fs.unlinkSync(tempFile)
RouteCleanup(d, tf) ==
    IF tf # "null" /\ d[tf] # Absent THEN Unlink(d, tf) ELSE d

\* res.status(status).json({ error }) / res.json(payload)
Respond(status, error) ==
    /\ response' = [status |-> status, error |-> error]
    /\ rPc' = "responded"

RouteInit ==
    /\ req \in Requests
    /\ rPc = "received"
    /\ tempFile = "null"
    /\ cloudResult = "null"
    /\ disk = [p \in Paths |->
                 IF p = "upload" /\ req.input = "file" THEN 1 ELSE Absent]
    /\ response = [status |-> 0, error |-> ""]
    /\ calls = <<>>
    /\ errors = <<>>

RouteIdle ==
    /\ req = [handler |-> "index:/upload-audio", input |-> "no-file"]
    /\ rPc = "responded"
    /\ tempFile = "null"
    /\ cloudResult = "null"
    /\ disk = [p \in Paths |-> Absent]
    /\ response = [status |-> 0, error |-> ""]
    /\ calls = <<>>
    /\ errors = <<>>

\* the error that a failed yt-dlp run raises: execSync throws it in
\* index2.js; spawnSync of index.js returns an exit status and raises none
YtDlpError(handler) ==
    IF handler = "index2:/upload-from-url" THEN <<"Command failed: yt-dlp">>
    ELSE <<>>

\* POST /upload-from-url up to its first await: the URL checks (index2.js
\* has no isExternalHttpUrl), then either yt-dlp, run synchronously, and
\* the call of uploadVideoFile, or the call of fetchRemoteToCloudinary
UrlReceive ==
    /\ rPc = "received"
    /\ req.handler \in UrlHandlers
    /\ IF req.input = ""
       THEN /\ Respond(400, "Missing URL")
            /\ UNCHANGED <<tempFile, disk, calls, errors>>
       ELSE IF /\ req.handler = "index:/upload-from-url"
               /\ ~isExternalHttpUrl(req.input)
       THEN /\ Respond(400, "Invalid or disallowed URL")
            /\ UNCHANGED <<tempFile, disk, calls, errors>>
       ELSE IF isYT(req.input)
       THEN /\ tempFile' = "yt"
            /\ \E yt \in {"ok", "failed", "failed-partial"} :
                  IF yt = "ok"
                  THEN /\ disk' = [disk EXCEPT !["yt"] = 1]
                       /\ calls' = calls \o <<"yt-dlp", "upload">>
                       /\ rPc' = "uploading"
                       /\ UNCHANGED <<response, errors>>
                  ELSE /\ disk' = RouteCleanup(
                                     IF yt = "failed-partial"
                                     THEN [disk EXCEPT !["yt"] = 1] ELSE disk,
                                     "yt")
                       /\ calls' = Append(calls, "yt-dlp")
                       /\ errors' = errors \o YtDlpError(req.handler)
                       /\ Respond(400, "yt-dlp download failed")
       ELSE /\ calls' = Append(calls, "fetch")
            /\ rPc' = "fetching"
            /\ UNCHANGED <<tempFile, disk, response, errors>>
    /\ UNCHANGED <<req, cloudResult>>
    /\ UNCHANGED <<cueVars, streamVars, downloadVars, jobVars, translateVars,
                   proxyVars, vttVars>>

\* fetchRemoteToCloudinary settles: on success transcription is started, on
\* failure the catch block calls downloadVideoFromUrl
FetchDone ==
    /\ rPc = "fetching"
    /\ \E ok \in BOOLEAN :
          IF ok
          THEN /\ cloudResult' = "asset"
               /\ calls' = Append(calls, "transcribe")
               /\ rPc' = "transcribing"
               /\ StartJob(TRUE, FALSE)
               /\ UNCHANGED <<downloadVars, errors>>
          ELSE /\ calls' = Append(calls, "download")
               /\ errors' = Append(errors, "fetch failed")
               /\ rPc' = "downloading"
               /\ dPc' = "requesting"
               /\ UNCHANGED <<cloudResult, dHeader, dCreated, dErr>>
               /\ UNCHANGED jobVars
    /\ UNCHANGED <<req, tempFile, disk, response>>
    /\ UNCHANGED <<cueVars, streamVars, translateVars,
                   proxyVars, vttVars>>

\* downloadVideoFromUrl settles: its path goes to tempFile and
\* uploadVideoFile is called, or its error ends the request (outer catch in
\* index.js, inner catch in index2.js; tempFile is still null in both)
DownloadDone ==
    /\ rPc = "downloading"
    /\ dPc \in {"returned", "thrown"}
    /\ IF dPc = "returned"
       THEN /\ tempFile' = "dl"
            /\ IF disk["dl"] # Absent
               THEN /\ calls' = Append(calls, "upload")
                    /\ rPc' = "uploading"
                    /\ UNCHANGED <<disk, response, errors>>
               ELSE /\ Respond(400, "Fallback download failed.")
                    /\ UNCHANGED <<disk, calls, errors>>
       ELSE /\ Respond(400, dErr)
            /\ errors' = Append(errors, dErr)
            /\ UNCHANGED <<tempFile, disk, calls>>
    /\ UNCHANGED <<req, cloudResult>>
    /\ UNCHANGED <<cueVars, streamVars, downloadVars, jobVars, translateVars,
                   proxyVars, vttVars>>

\* uploadVideoFile settles.  Success: transcription of the asset starts.
\* Failure: /upload-audio swallows it and transcribes the local file;
\* index2.js, after a download, answers from its inner catch, which has no
\* cleanup; every other case goes through the outer catch and its cleanup.
UploadDone ==
    /\ rPc = "uploading"
    /\ \E ok \in BOOLEAN :
          IF ok /\ disk[tempFile] # Absent
          THEN /\ cloudResult' = "asset"
               /\ calls' = Append(calls, "transcribe")
               /\ rPc' = "transcribing"
               /\ StartJob(TRUE, FALSE)
               /\ UNCHANGED <<disk, response, errors>>
          ELSE IF req.handler = "index:/upload-audio"
          THEN /\ calls' = Append(calls, "transcribe")
               /\ errors' = Append(errors, "upload failed")
               /\ rPc' = "transcribing"
               /\ StartJob(FALSE, disk[tempFile] # Absent)
               /\ UNCHANGED <<cloudResult, disk, response>>
          ELSE IF req.handler = "index2:/upload-from-url" /\ tempFile = "dl"
          THEN /\ Respond(400, "upload failed")
               /\ errors' = Append(errors, "upload failed")
               /\ UNCHANGED <<cloudResult, disk, calls>>
               /\ UNCHANGED jobVars
          ELSE /\ disk' = RouteCleanup(disk, tempFile)
               /\ Respond(400, "upload failed")
               /\ errors' = Append(errors, "upload failed")
               /\ UNCHANGED <<cloudResult, calls>>
               /\ UNCHANGED jobVars
    /\ UNCHANGED <<req, tempFile>>
    /\ UNCHANGED <<cueVars, streamVars, downloadVars, translateVars,
                   proxyVars, vttVars>>

\* transcribeAndSaveVtt settles.  The transcriber returned: the VTT file is
\* written, then cleanup and the 200 response.  It threw: the outer catch
\* with its cleanup and the error response carrying the message
TranscribeDone ==
    /\ rPc = "transcribing"
    /\ jobPc \in JobTerminal
    /\ disk' = RouteCleanup(disk, tempFile)
    /\ subtitles' = IF WritesVtt(jobPc)
                    THEN subtitles \cup {VttName(cloudResult = "asset")}
                    ELSE subtitles
    /\ IF jobPc = "completed"
       THEN Respond(200, "")
       ELSE Respond(IF req.handler = "index:/upload-audio" THEN 500 ELSE 400,
                    jobErr)
    /\ UNCHANGED <<req, tempFile, cloudResult, calls, errors>>
    /\ UNCHANGED <<API_KEY, jobPc, provider, submits, polls, resultStatus,
                   resultError, jobErr>>
    /\ UNCHANGED <<cueVars, streamVars, downloadVars, translateVars,
                   proxyVars, vttVars>>

\* POST /upload-audio up to its first await: no file is a 400, otherwise
\* uploadVideoFile(filePath) is called
AudioReceive ==
    /\ rPc = "received"
    /\ req.handler = "index:/upload-audio"
    /\ IF req.input = "no-file"
       THEN /\ Respond(400, "No file uploaded. Use field 'file'")
            /\ UNCHANGED <<tempFile, calls>>
       ELSE /\ tempFile' = "upload"
            /\ calls' = Append(calls, "upload")
            /\ rPc' = "uploading"
            /\ UNCHANGED response
    /\ UNCHANGED <<req, cloudResult, disk, errors>>
    /\ UNCHANGED <<cueVars, streamVars, downloadVars, jobVars, translateVars,
                   proxyVars, vttVars>>

AcquireNext ==
    \/ UrlReceive
    \/ AudioReceive
    \/ FetchDone
    \/ DownloadResponse
    \/ DownloadNoResponse
    \/ DownloadPipeEnd
    \/ DownloadPipeError
    \/ DownloadDone
    \/ UploadDone
    \/ JobUpload
    \/ JobSubmit
    \/ JobPoll
    \/ ProviderStep
    \/ TranscribeDone

----------------------------------------------------------------------------
(* index.js: POST /translate-subtitles with normLangBackend, the script     *)
(* heuristic, translateWithMyMemory and translateTextWithFallback.  A cue    *)
(* text is the sequence of its code points.                                  *)

\* longest segments array of a request
MaxCues == 2

\* cue texts: empty, Latin "hi", two Devanagari letters
CueTexts == {<<>>, <<104, 105>>, <<2344, 2350>>}

\* the k-th segment of a request, carrying text t
CueAt(k, t) ==
    [start |-> (k - 1) * 2000, end |-> (k - 1) * 2000 + 1500, text |-> t]

SegmentLists ==
    UNION {{[k \in 1..n |-> CueAt(k, f[k])] : f \in [1..n -> CueTexts]} :
              n \in 0..MaxCues}

\* req.body.targetLang and req.body.detectedLanguage, "" when absent
TargetLangs == {"", "hi", "HI", "en", "Hindi", "klingon"}
DetectedLangs == {"", "en", "hi", "AUTO"}

\* req.body; a transcriptId matters only without segments
Bodies ==
    {b \in [segments : SegmentLists, targetLang : TargetLangs,
            detectedLanguage : DetectedLangs, transcriptId : BOOLEAN] :
        b.transcriptId => b.segments = <<>>}

\* segment arrays the rebuild from a fetched transcript can give
RebuiltSegments == {<<CueAt(1, <<104, 105>>)>>}

UpperLetters ==
    <<"A", "B", "C", "D", "E", "F", "G", "H", "I", "J", "K", "L", "M",
      "N", "O", "P", "Q", "R", "S", "T", "U", "V", "W", "X", "Y", "Z">>
LowerLetters ==
    <<"a", "b", "c", "d", "e", "f", "g", "h", "i", "j", "k", "l", "m",
      "n", "o", "p", "q", "r", "s", "t", "u", "v", "w", "x", "y", "z">>

IsUpper(c) == \E k \in 1..26 : UpperLetters[k] = c
IsLower(c) == \E k \in 1..26 : LowerLetters[k] = c
IsLetter(c) == IsUpper(c) \/ IsLower(c)

\* the characters of s from position i on
From(s, i) == IF i > Len(s) THEN "" ELSE SubSeq(s, i, Len(s))

\* String.prototype.toLowerCase / toUpperCase on ASCII
RECURSIVE toLowerCase(_)
toLowerCase(s) ==
    IF Len(s) = 0 THEN ""
    ELSE LET c == SubSeq(s, 1, 1)
         IN  (IF IsUpper(c)
              THEN LowerLetters[CHOOSE k \in 1..26 : UpperLetters[k] = c]
              ELSE c) \o toLowerCase(From(s, 2))

RECURSIVE toUpperCase(_)
toUpperCase(s) ==
    IF Len(s) = 0 THEN ""
    ELSE LET c == SubSeq(s, 1, 1)
         IN  (IF IsLower(c)
              THEN UpperLetters[CHOOSE k \in 1..26 : LowerLetters[k] = c]
              ELSE c) \o toUpperCase(From(s, 2))

\* String.prototype.trim for blanks
RECURSIVE trim(_)
trim(s) ==
    IF Len(s) = 0 THEN ""
    ELSE IF SubSeq(s, 1, 1) = " " THEN trim(From(s, 2))
    ELSE IF SubSeq(s, Len(s), Len(s)) = " " THEN trim(SubSeq(s, 1, Len(s) - 1))
    ELSE s

\* /^[A-Za-z]+$/ with at least one letter
RECURSIVE AllLetters(_)
AllLetters(s) ==
    /\ Len(s) > 0
    /\ IsLetter(SubSeq(s, 1, 1))
    /\ Len(s) = 1 \/ AllLetters(From(s, 2))

\* /^[A-Za-z]{2}(-[A-Za-z]{2,4})?$/
IsCode(s) ==
    \/ Len(s) = 2 /\ AllLetters(s)
    \/ /\ Len(s) \in 5..7
       /\ AllLetters(SubSeq(s, 1, 2))
       /\ SubSeq(s, 3, 3) = "-"
       /\ AllLetters(From(s, 4))

\* .replace(/\s+/g, "_").replace(/[()]/g, "")
RECURSIVE MapKey(_, _)
MapKey(s, afterBlank) ==
    IF Len(s) = 0 THEN ""
    ELSE LET c == SubSeq(s, 1, 1)
         IN  IF c = " "
             THEN (IF afterBlank THEN "" ELSE "_") \o MapKey(From(s, 2), TRUE)
             ELSE IF c \in {"(", ")"} THEN MapKey(From(s, 2), FALSE)
             ELSE c \o MapKey(From(s, 2), FALSE)

LANG_MAP_BACKEND ==
    ("english" :> "en") @@ ("en" :> "en") @@ ("hindi" :> "hi") @@
    ("hi" :> "hi") @@ ("spanish" :> "es") @@ ("es" :> "es") @@
    ("french" :> "fr") @@ ("fr" :> "fr") @@ ("chinese" :> "zh-CN") @@
    ("chinese_simplified" :> "zh-CN") @@ ("chinese_traditional" :> "zh-TW") @@
    ("japanese" :> "ja") @@ ("ja" :> "ja") @@ ("korean" :> "ko") @@
    ("ko" :> "ko") @@ ("german" :> "de") @@ ("de" :> "de") @@
    ("italian" :> "it") @@ ("it" :> "it") @@ ("portuguese" :> "pt") @@
    ("pt" :> "pt") @@ ("russian" :> "ru") @@ ("ru" :> "ru") @@
    ("arabic" :> "ar") @@ ("ar" :> "ar") @@ ("turkish" :> "tr") @@
    ("tr" :> "tr")

\* LANG_MAP_BACKEND is an object literal: a lookup by key also finds what it
\* inherits from Object.prototype.  Of those names only the two below can
\* come out of toLowerCase(); the value is shown as the string that a
\* template literal makes of it
ObjectPrototype ==
    ("constructor" :> "function Object() { [native code] }") @@
    ("__proto__" :> "[object Object]")

normLangBackend(l) ==
    IF l = "" THEN "auto"
    ELSE LET s == trim(l)
             key == MapKey(toLowerCase(s), FALSE)
         IN  IF toLowerCase(s) = "auto" THEN "auto"
             ELSE IF IsCode(s)
             THEN (IF Len(s) > 2
                   THEN toLowerCase(SubSeq(s, 1, 2)) \o "-"
                            \o toUpperCase(From(s, 4))
                   ELSE toLowerCase(s))
             ELSE IF key \in DOMAIN LANG_MAP_BACKEND
             THEN LANG_MAP_BACKEND[key]
             ELSE IF key \in DOMAIN ObjectPrototype
             THEN ObjectPrototype[key]
             ELSE "auto"

\* detectScriptFromTextSample: the first script, in the order of the tests,
\* of which the text has a character; "null" when it has none
HasIn(text, lo, hi) == \E k \in 1..Len(text) : text[k] >= lo /\ text[k] <= hi

detectScriptFromTextSample(text) ==
    IF Len(text) = 0 THEN "null"
    ELSE IF HasIn(text, 2304, 2431) THEN "hi"
    ELSE IF HasIn(text, 1024, 1279) THEN "ru"
    ELSE IF HasIn(text, 1536, 1791) THEN "ar"
    ELSE IF HasIn(text, 19968, 40959) \/ HasIn(text, 13312, 19903)
    THEN "zh-CN"
    ELSE IF HasIn(text, 3584, 3711) THEN "th"
    ELSE IF HasIn(text, 1424, 1535) THEN "he"
    ELSE "null"

\* a vote taken over all the segments
WinnerOverAll(segs) ==
    LET n == Len(segs)
        guess(i) == detectScriptFromTextSample(segs[i].text)
        voters(g) == {i \in 1..n : guess(i) = g}
        keys == {guess(i) : i \in 1..n} \ {"null"}
        first(g) == CHOOSE i \in voters(g) : \A j \in voters(g) : i <= j
    IN  IF keys = {} THEN "null"
        ELSE CHOOSE g \in keys :
                \A h \in keys \ {g} :
                    \/ Cardinality(voters(h)) < Cardinality(voters(g))
                    \/ /\ Cardinality(voters(h)) = Cardinality(voters(g))
                       /\ first(g) < first(h)

\* winners[0]: the guess with most votes among the first 8 segments, the
\* one seen first among equals (the sort is stable); "null" without votes
Winner(segs) ==
    LET n == IF Len(segs) < 8 THEN Len(segs) ELSE 8
        guess(i) == detectScriptFromTextSample(segs[i].text)
        voters(g) == {i \in 1..n : guess(i) = g}
        keys == {guess(i) : i \in 1..n} \ {"null"}
        first(g) == CHOOSE i \in voters(g) : \A j \in voters(g) : i <= j
    IN  IF keys = {} THEN "null"
        ELSE CHOOSE g \in keys :
                \A h \in keys \ {g} :
                    \/ Cardinality(voters(h)) < Cardinality(voters(g))
                    \/ /\ Cardinality(voters(h)) = Cardinality(voters(g))
                       /\ first(g) < first(h)

\* the source language after the inference block
InferSrcLang(src, segs) ==
    IF src \in {"auto", "en"} /\ Len(segs) > 0 /\ Winner(segs) \notin {"null", src}
    THEN Winner(segs)
    ELSE src

\* a handler that never takes the same-language branch
SameLanguageNever(src, tgt) == FALSE

\* simpleSrc !== "auto" && simpleSrc === simpleTgt
SameLanguage(src, tgt) ==
    toLowerCase(src) # "auto" /\ toLowerCase(src) = toLowerCase(tgt)

\* MIRRORS: the configured mirror when there is one, then the three fixed ones
MIRRORS ==
    (IF LIBRE_URL THEN <<"LIBRE_URL">> ELSE <<>>) \o
    <<"libretranslate.de", "translate.terraprint.co",
      "translate.argosopentech.com">>

\* what a provider call can give: it fails, it gives no text, it gives a
\* translation, it gives the text unchanged
ProviderOutcomes == {"error", "empty", "text", "same"}

\* the translation MyMemory gives, and the one the m-th mirror gives
PrimaryAnswer == <<80>>
MirrorAnswer(m) == <<77, 48 + m>>

\* the text a provider call gives, <<>> when it gives none
Given(out, answer, original) ==
    IF out = "text" THEN answer
    ELSE IF out = "same" THEN original
    ELSE <<>>

\* a caller that goes on to the next provider whatever the last one gave
NoTextAlways(t) == TRUE

\* the tests on a provider's answer (t && t.length, r.data?.translatedText):
\* no text makes the caller go on to the next provider
NoText(t) == t = <<>>

\* a loop that drops the segment for which no provider gave a text
PushedDropping(seg, translatedText) ==
    IF translatedText = <<>> THEN <<>>
    ELSE <<[seg EXCEPT !.text = translatedText]>>

\* a loop that gives every output segment the times of the first one
PushedRetimed(seg, translatedText) ==
    <<[start |-> 0, end |-> 1500,
       text |-> IF translatedText = <<>> THEN seg.text ELSE translatedText]>>

\* a loop that goes on to the next segment with nothing appended yet
PushedLater(seg, translatedText) == <<>>

\* translated.push({ ...seg, text: translatedText }), translatedText
\* replaced by the original when it is empty
Pushed(seg, translatedText) ==
    <<[seg EXCEPT !.text = IF translatedText = <<>> THEN seg.text
                           ELSE translatedText]>>

\* res.status(status).json({ ok: false, error }) / res.json({ ok: true, ... })
TRespond(status, error, segs) ==
    /\ tResponse' = [status |-> status, ok |-> status = 200, error |-> error,
                     segments |-> segs]
    /\ xPc' = "responded"

TranslateInit ==
    /\ LIBRE_URL \in BOOLEAN
    /\ body \in Bodies
    /\ xPc = "received"
    /\ tgtLang = "null"
    /\ srcLang = "null"
    /\ toTranslateSegments = <<>>
    /\ translated = <<>>
    /\ segIndex = 0
    /\ mirrorIndex = 0
    /\ cueCalls = <<>>
    /\ providerCalls = 0
    /\ tResponse = [status |-> 0, ok |-> FALSE, error |-> "", segments |-> <<>>]

TranslateIdle ==
    /\ LIBRE_URL = FALSE
    /\ body = [segments |-> <<>>, targetLang |-> "", detectedLanguage |-> "",
               transcriptId |-> FALSE]
    /\ xPc = "idle"
    /\ tgtLang = "null"
    /\ srcLang = "null"
    /\ toTranslateSegments = <<>>
    /\ translated = <<>>
    /\ segIndex = 0
    /\ mirrorIndex = 0
    /\ cueCalls = <<>>
    /\ providerCalls = 0
    /\ tResponse = [status |-> 0, ok |-> FALSE, error |-> "", segments |-> <<>>]

\* the handler from the inference block on, for the segments segs and the
\* source language src: inference, the 400 for no segments, the
\* same-language branch up to its writeFile, or the start of the loop
Resolve(segs, src, tgt) ==
    /\ toTranslateSegments' = segs
    /\ srcLang' = InferSrcLang(src, segs)
    /\ IF Len(segs) = 0
       THEN /\ TRespond(400,
                 "No segments to translate (provide segments or transcriptId)",
                 <<>>)
            /\ UNCHANGED segIndex
       ELSE IF SameLanguage(InferSrcLang(src, segs), tgt)
       THEN /\ xPc' = "writing-unchanged"
            /\ UNCHANGED <<tResponse, segIndex>>
       ELSE /\ xPc' = "primary"
            /\ segIndex' = 1
            /\ UNCHANGED tResponse
    /\ UNCHANGED <<LIBRE_URL, body, translated, mirrorIndex, cueCalls,
                   providerCalls>>

\* POST /translate-subtitles up to its first await
TranslateReceive ==
    /\ xPc = "received"
    /\ IF body.targetLang = ""
       THEN /\ TRespond(400, "targetLang required", <<>>)
            /\ UNCHANGED <<LIBRE_URL, body, tgtLang, srcLang,
                           toTranslateSegments, translated, segIndex,
                           mirrorIndex, cueCalls, providerCalls>>
       ELSE LET tgt == normLangBackend(body.targetLang)
                src == IF body.detectedLanguage # ""
                       THEN normLangBackend(body.detectedLanguage)
                       ELSE "auto"
            IN  /\ tgtLang' = tgt
                /\ IF Len(body.segments) = 0 /\ body.transcriptId /\ API_KEY
                   THEN /\ xPc' = "fetching"
                        /\ srcLang' = src
                        /\ UNCHANGED <<LIBRE_URL, body, toTranslateSegments,
                                       translated, segIndex, mirrorIndex,
                                       cueCalls, providerCalls, tResponse>>
                   ELSE Resolve(body.segments, src, tgt)
    /\ UNCHANGED <<cueVars, streamVars, downloadVars, routeVars, jobVars,
                   proxyVars, vttVars>>

\* the GET of the transcript settles: segments rebuilt from it, or none
\* (the request failed, the transcript has no usable words)
TranslateFetched ==
    /\ xPc = "fetching"
    /\ \E built \in RebuiltSegments \cup {<<>>} :
          Resolve(built, srcLang, tgtLang)
    /\ UNCHANGED tgtLang
    /\ UNCHANGED <<cueVars, streamVars, downloadVars, routeVars, jobVars,
                   proxyVars, vttVars>>

\* translateWithMyMemory: the GET to MyMemory settles.  A text is returned
\* to the loop and pushed; otherwise translateTextWithFallback is entered
TranslatePrimary ==
    /\ xPc = "primary"
    /\ providerCalls' = providerCalls + 1
    /\ \E out \in ProviderOutcomes :
          LET seg == toTranslateSegments[segIndex]
              t == Given(out, PrimaryAnswer, seg.text)
          IN  /\ cueCalls' =
                    Append(cueCalls, [provider |-> "mymemory", text |-> t])
              /\ IF ~NoText(t) \/ Len(MIRRORS) = 0
                 THEN /\ translated' = translated \o Pushed(seg, t)
                      /\ xPc' = "sleep"
                      /\ UNCHANGED mirrorIndex
                 ELSE /\ mirrorIndex' = 1
                      /\ xPc' = "mirror"
                      /\ UNCHANGED translated
    /\ UNCHANGED <<LIBRE_URL, body, tgtLang, srcLang, toTranslateSegments,
                   segIndex, tResponse>>
    /\ UNCHANGED <<cueVars, streamVars, downloadVars, routeVars, jobVars,
                   proxyVars, vttVars>>

\* translateTextWithFallback: the POST to the current mirror settles.  A
\* text ends the loop over the mirrors and is pushed (the original text when
\* the mirror gave the text back); otherwise the next mirror, and after the
\* last one the original text
TranslateMirror ==
    /\ xPc = "mirror"
    /\ providerCalls' = providerCalls + 1
    /\ \E out \in ProviderOutcomes :
          LET seg == toTranslateSegments[segIndex]
              t == Given(out, MirrorAnswer(mirrorIndex), seg.text)
          IN  /\ cueCalls' = Append(cueCalls, [provider |-> MIRRORS[mirrorIndex],
                                               text |-> t])
              /\ IF ~NoText(t) \/ mirrorIndex = Len(MIRRORS)
                 THEN /\ translated' = translated \o Pushed(seg, t)
                      /\ xPc' = "sleep"
                      /\ UNCHANGED mirrorIndex
                 ELSE /\ mirrorIndex' = mirrorIndex + 1
                      /\ UNCHANGED <<translated, xPc>>
    /\ UNCHANGED <<LIBRE_URL, body, tgtLang, srcLang, toTranslateSegments,
                   segIndex, tResponse>>
    /\ UNCHANGED <<cueVars, streamVars, downloadVars, routeVars, jobVars,
                   proxyVars, vttVars>>

\* the 70 ms pause after a segment is over: the next segment, or the end
\* of the loop
TranslateSleep ==
    /\ xPc = "sleep"
    /\ IF segIndex < Len(toTranslateSegments)
       THEN /\ segIndex' = segIndex + 1
            /\ cueCalls' = <<>>
            /\ xPc' = "primary"
       ELSE /\ xPc' = "writing"
            /\ UNCHANGED <<segIndex, cueCalls>>
    /\ UNCHANGED <<LIBRE_URL, body, tgtLang, srcLang, toTranslateSegments,
                   translated, mirrorIndex, providerCalls, tResponse>>
    /\ UNCHANGED <<cueVars, streamVars, downloadVars, routeVars, jobVars,
                   proxyVars, vttVars>>

\* `translated-${tgtLang}-${Date.now()}-${random}.vtt`
TranslatedVttName == "translated-" \o tgtLang \o ".vtt"

\* fsPromises.writeFile settles and the 200 response is sent, with the
\* translated array, or with toTranslateSegments in the same-language branch
TranslateWrite ==
    /\ xPc \in {"writing", "writing-unchanged"}
    /\ subtitles' = subtitles \cup {TranslatedVttName}
    /\ TRespond(200, "",
                IF xPc = "writing" THEN translated ELSE toTranslateSegments)
    /\ UNCHANGED <<LIBRE_URL, body, tgtLang, srcLang, toTranslateSegments,
                   translated, segIndex, mirrorIndex, cueCalls, providerCalls>>
    /\ UNCHANGED <<API_KEY, jobPc, provider, submits, polls, resultStatus,
                   resultError, jobErr>>
    /\ UNCHANGED <<cueVars, streamVars, downloadVars, routeVars,
                   proxyVars, vttVars>>

TranslateNext ==
    \/ TranslateReceive
    \/ TranslateFetched
    \/ TranslatePrimary
    \/ TranslateMirror
    \/ TranslateSleep
    \/ TranslateWrite

----------------------------------------------------------------------------
(* GET /proxy/video (index.js 924-995, index2.js 432-512: the same code) *)

ProxyUrls == {"", "https://example.com/v.mp4"}
RangeHeaders == {"", "bytes=0-"}
ProxyRequests == [url : ProxyUrls, range : RangeHeaders]

\* what the upstream server can answer: validateStatus accepts every status
UpstreamStatuses == {200, 206, 404, 500}
UpstreamAnswers ==
    {a \in [status : UpstreamStatuses, contentType : {"", "video/mp4"},
            contentLength : {"", "1000"}, contentRange : {"", "bytes 0-999/1000"}] :
        (a.contentRange # "") <=> (a.status = 206)}

NoAnswer == [status |-> 0, contentType |-> "", contentLength |-> "", contentRange |-> ""]
NoRes == [status |-> 0, contentType |-> "", contentLength |-> "", contentRange |-> "",
          acceptRanges |-> "", headersSent |-> FALSE, error |-> "", ended |-> FALSE]

\* res.status(code).json({error}): sets the status, sends headers and body
Json(res, code, error) ==
    [res EXCEPT !.status = code, !.headersSent = TRUE, !.error = error, !.ended = TRUE]

ProxyIdle ==
    /\ pReq = [url |-> "", range |-> ""]
    /\ pPc = "idle"
    /\ upstream = "none"
    /\ upstreamRes = NoAnswer
    /\ clientAborted = FALSE
    /\ abortListener = FALSE
    /\ pResponse = NoRes

ProxyInit ==
    /\ pReq \in ProxyRequests
    /\ pPc = "received"
    /\ upstream = "none"
    /\ upstreamRes = NoAnswer
    /\ clientAborted = FALSE
    /\ abortListener = FALSE
    /\ pResponse = NoRes

\* lines 925-946: the missing parameter, else the upstream GET is issued
ProxyReceive ==
    /\ pPc = "received"
    /\ IF pReq.url = ""
         THEN /\ pResponse' = Json(pResponse, 400, "Missing 'url' parameter")
              /\ pPc' = "done"
              /\ UNCHANGED upstream
         ELSE /\ upstream' = "pending"
              /\ pPc' = "awaiting"
              /\ UNCHANGED pResponse
    /\ UNCHANGED <<pReq, upstreamRes, clientAborted, abortListener>>
    /\ UNCHANGED <<cueVars, streamVars, downloadVars, routeVars, jobVars,
                   translateVars, vttVars>>

\* lines 948-990: the upstream response arrives and the handler runs to its end
ProxyUpstreamResponse ==
    /\ pPc = "awaiting"
    /\ upstream = "pending"
    /\ \E a \in UpstreamAnswers :
        /\ upstreamRes' = a
        /\ upstream' = "open"
        /\ IF a.status < 200 \/ a.status >= 300
             THEN /\ pResponse' = Json(pResponse, 502, "Remote server error")
                  /\ pPc' = "done"
                  /\ UNCHANGED abortListener
             ELSE /\ pResponse' =
                        [pResponse EXCEPT
                            !.contentType = a.contentType,
                            !.contentLength = a.contentLength,
                            !.acceptRanges = "bytes",
                            !.contentRange = a.contentRange,
                            !.status = IF a.contentRange # "" THEN 206 ELSE 0]
                  /\ pPc' = "streaming"
                  /\ abortListener' = TRUE
    /\ UNCHANGED <<pReq, clientAborted>>
    /\ UNCHANGED <<cueVars, streamVars, downloadVars, routeVars, jobVars,
                   translateVars, vttVars>>

\* lines 991-994: axios.get rejects (timeout, network error): the catch
ProxyUpstreamFail ==
    /\ pPc = "awaiting"
    /\ upstream = "pending"
    /\ upstream' = "failed"
    /\ pPc' = "done"
    /\ pResponse' = IF pResponse.headersSent THEN pResponse
                    ELSE Json(pResponse, 502, "Proxy failed")
    /\ UNCHANGED <<pReq, upstreamRes, clientAborted, abortListener>>
    /\ UNCHANGED <<cueVars, streamVars, downloadVars, routeVars, jobVars,
                   translateVars, vttVars>>

\* line 971, pipe: a chunk of the upstream body is written to res; the first
\* write sends the headers (status 200 when none was set)
ProxyChunk ==
    /\ pPc = "streaming"
    /\ upstream = "open"
    /\ ~clientAborted
    /\ ~pResponse.headersSent
    /\ pResponse' = [pResponse EXCEPT
                        !.headersSent = TRUE,
                        !.status = IF @ = 0 THEN 200 ELSE @]
    /\ UNCHANGED <<pReq, pPc, upstream, upstreamRes, clientAborted, abortListener>>
    /\ UNCHANGED <<cueVars, streamVars, downloadVars, routeVars, jobVars,
                   translateVars, vttVars>>

\* line 971, pipe: the upstream body ends and pipe ends res
ProxyStreamEnd ==
    /\ pPc = "streaming"
    /\ upstream = "open"
    /\ upstream' = "ended"
    /\ pPc' = "done"
    /\ pResponse' = [pResponse EXCEPT
                        !.headersSent = TRUE,
                        !.status = IF @ = 0 THEN 200 ELSE @,
                        !.ended = TRUE]
    /\ UNCHANGED <<pReq, upstreamRes, clientAborted, abortListener>>
    /\ UNCHANGED <<cueVars, streamVars, downloadVars, routeVars, jobVars,
                   translateVars, vttVars>>

\* lines 973-981: the upstream body emits "error"
ProxyStreamError ==
    /\ pPc = "streaming"
    /\ upstream = "open"
    /\ upstream' = "errored"
    /\ pPc' = "done"
    /\ pResponse' = IF ~pResponse.headersSent
                      THEN Json(pResponse, 502, "Failed to stream video")
                      ELSE [pResponse EXCEPT !.ended = TRUE]
    /\ UNCHANGED <<pReq, upstreamRes, clientAborted, abortListener>>
    /\ UNCHANGED <<cueVars, streamVars, downloadVars, routeVars, jobVars,
                   translateVars, vttVars>>

\* the client drops the connection while its request is being served; lines
\* 983-986: the listener, when it is there, destroys the upstream body
ClientAbort ==
    /\ pPc \in {"awaiting", "streaming"}
    /\ ~clientAborted
    /\ clientAborted' = TRUE
    /\ upstream' = IF abortListener /\ upstream = "open"
                     THEN "destroyed" ELSE upstream
    /\ UNCHANGED <<pReq, pPc, upstreamRes, abortListener, pResponse>>
    /\ UNCHANGED <<cueVars, streamVars, downloadVars, routeVars, jobVars,
                   translateVars, vttVars>>

ProxyNext ==
    \/ ProxyReceive
    \/ ProxyUpstreamResponse
    \/ ProxyUpstreamFail
    \/ ProxyChunk
    \/ ProxyStreamEnd
    \/ ProxyStreamError
    \/ ClientAbort

----------------------------------------------------------------------------
(* The timestamp encoders and the serializers, called on their own *)

VttIdle ==
    /\ call = [fn |-> "none"]
    /\ returned = <<>>
    /\ calledAt = <<>>
    /\ now = 0

\* A value handed to an encoder.  A number of seconds is represented by its
\* count of milliseconds: Sec(T) is the binary64 nearest to T / 1000, which is
\* what the code gets from w.start / 1000.
Sec(T) == [t |-> "number", ms |-> T]
NaNValue == [t |-> "NaN"]
Undefined == [t |-> "undefined"]
Str(s) == [t |-> "string", s |-> s]

\* An integer computed by an encoder, or NaN
Whole(n) == [nan |-> FALSE, n |-> n]
NaN == [nan |-> TRUE, n |-> 0]

\* the whole-millisecond values T of the grid below for which the binary64
\* product (T / 1000) * 1000 falls just short of T
ProductBelow == {1001, 2002}

EncodeGrid ==
    {0, 1, 500, 900, 999, 1000, 1001, 1500, 2002, 59999, 60000, 3599999,
     3600000, 3661234, 86400000, 360000000}
NegativeGrid == {-1, -500, -1500, -3661234}
EncodeInputs ==
    {Sec(T) : T \in EncodeGrid \cup NegativeGrid}
        \cup {NaNValue, Undefined, Str("abc")}

\* Number(x); the strings of EncodeInputs are not numerals
Number(x) ==
    CASE x.t = "number" -> x
      [] x.t = "string" -> IF x.s = "" THEN Sec(0) ELSE NaNValue
      [] OTHER -> NaNValue

\* x || 0
OrZero(x) ==
    CASE x.t = "number" -> IF x.ms = 0 THEN Sec(0) ELSE x
      [] x.t = "string" -> IF x.s = "" THEN Sec(0) ELSE x
      [] OTHER -> Sec(0)

\* Math.floor(x * 1000): the product of a positive value of ProductBelow
\* lies between T - 1 and T
FloorTimes1000(x) ==
    IF x.t = "number"
      THEN IF x.ms \in ProductBelow THEN Whole(x.ms - 1) ELSE Whole(x.ms)
      ELSE NaN

\* Math.round(x * 1000): the product is within less than 1/2 of T
RoundTimes1000(x) ==
    IF x.t = "number" THEN Whole(x.ms) ELSE NaN

\* Math.floor(a / d) for d > 0
FloorDiv(a, d) == IF a.nan THEN NaN ELSE Whole(a.n \div d)

\* a % d in JavaScript for d > 0: the remainder has the sign of a
JsRem(a, d) ==
    IF a.nan THEN NaN
    ELSE IF a.n >= 0 THEN Whole(a.n % d) ELSE Whole(-((-a.n) % d))

\* String(n)
String(a) ==
    IF a.nan THEN "NaN"
    ELSE IF a.n < 0 THEN "-" \o ToString(-a.n) ELSE ToString(a.n)

\* s.padStart(z, "0")
RECURSIVE padStart(_, _)
padStart(s, z) == IF Len(s) >= z THEN s ELSE padStart("0" \o s, z)

\* transcribe.js, toVttTime
toVttTime(seconds) ==
    LET sec == OrZero(Number(seconds))
        ms == FloorTimes1000(sec)
        hours == FloorDiv(ms, 3600000)
        minutes == FloorDiv(JsRem(ms, 3600000), 60000)
        secs == FloorDiv(JsRem(ms, 60000), 1000)
        milliseconds == JsRem(ms, 1000)
    IN  padStart(String(hours), 2) \o ":" \o padStart(String(minutes), 2)
            \o ":" \o padStart(String(secs), 2) \o "."
            \o padStart(String(milliseconds), 3)

\* index.js, secToVttTimestamp
secToVttTimestamp(t) ==
    LET totalMs == RoundTimes1000(OrZero(t))
        ms == JsRem(totalMs, 1000)
        s1 == FloorDiv(totalMs, 1000)
        secs == JsRem(s1, 60)
        s2 == FloorDiv(s1, 60)
        mins == JsRem(s2, 60)
        hrs == FloorDiv(s2, 60)
    IN  padStart(String(hrs), 2) \o ":" \o padStart(String(mins), 2)
            \o ":" \o padStart(String(secs), 2) \o "."
            \o padStart(String(ms), 3)

\* index.js, the toVttTime local to buildVttFromSegments: the same code
buildVttFromSegments_toVttTime(sec) ==
    LET totalMs == RoundTimes1000(OrZero(sec))
        ms == JsRem(totalMs, 1000)
        s1 == FloorDiv(totalMs, 1000)
        secs == JsRem(s1, 60)
        s2 == FloorDiv(s1, 60)
        mins == JsRem(s2, 60)
        hrs == FloorDiv(s2, 60)
    IN  padStart(String(hrs), 2) \o ":" \o padStart(String(mins), 2)
            \o ":" \o padStart(String(secs), 2) \o "."
            \o padStart(String(ms), 3)

Encoders == {"toVttTime", "secToVttTimestamp", "buildVttFromSegments.toVttTime"}

EncodeInit ==
    /\ call \in [fn : Encoders, arg : EncodeInputs]
    /\ returned = <<>>
    /\ calledAt = <<>>
    /\ now = 0

\* one call of an encoder
Encode ==
    /\ call.fn \in Encoders
    /\ returned = <<>>
    /\ returned' =
        <<CASE call.fn = "toVttTime" -> toVttTime(call.arg)
            [] call.fn = "secToVttTimestamp" -> secToVttTimestamp(call.arg)
            [] OTHER -> buildVttFromSegments_toVttTime(call.arg)>>
    /\ calledAt' = <<now>>
    /\ UNCHANGED <<call, now>>
    /\ UNCHANGED <<cueVars, streamVars, downloadVars, routeVars, jobVars,
                   translateVars, proxyVars>>

----------------------------------------------------------------------------
(* The serializers: buildVtt (transcribe.js) and buildVttFromSegments      *)
(* (index.js).  Content is a string; a line break is "\n", CR LF "\r\n".   *)

MaxBlocks == 3
MaxNow == 2

RenderCues ==
    {[start |-> Sec(0), end |-> Sec(900), text |-> "hi there"],
     [start |-> Sec(1001), end |-> Sec(2002), text |-> "a\r\nb"],
     [start |-> Sec(3600000), end |-> Sec(3661234), text |-> ""]}
RenderLists == UNION {[1..n -> RenderCues] : n \in 0..MaxBlocks}
FallbackTexts == {"", "full text"}

\* the segments argument: an array, or null / undefined
Cues(list) == [present |-> TRUE, list |-> list]
NoCues == [present |-> FALSE, list |-> <<>>]

\* text.replace(/\r\n/g, "\n")
RECURSIVE ReplaceCRLF(_)
ReplaceCRLF(text) ==
    IF Len(text) = 0 THEN ""
    ELSE IF Len(text) >= 2 /\ SubSeq(text, 1, 2) = "\r\n"
    THEN "\n" \o ReplaceCRLF(SubSeq(text, 3, Len(text)))
    ELSE SubSeq(text, 1, 1) \o ReplaceCRLF(SubSeq(text, 2, Len(text)))

\* lines.join("\n")
RECURSIVE Join(_)
Join(lines) ==
    IF Len(lines) = 0 THEN ""
    ELSE IF Len(lines) = 1 THEN lines[1]
    ELSE lines[1] \o "\n" \o Join(Tail(lines))

\* a fallback block that ends after half an hour
FallbackBlockHalfHour(fullText) ==
    "1\n00:00:00.000 --> 00:30:00.000\n" \o fullText \o "\n\n"

\* buildVtt, lines 27-28: the single block over the full text
FallbackBlock(fullText) ==
    "1\n00:00:00.000 --> 01:00:00.000\n" \o fullText \o "\n\n"

\* a serializer that emits the segments last to first
RECURSIVE ForEachBlockReversed(_, _)
ForEachBlockReversed(list, idx) ==
    IF idx >= Len(list) THEN ""
    ELSE LET seg == list[Len(list) - idx]
         IN  ToString(idx + 1) \o "\n" \o toVttTime(seg.start) \o " --> "
                 \o toVttTime(seg.end) \o "\n" \o seg.text \o "\n\n"
                 \o ForEachBlockReversed(list, idx + 1)

\* buildVtt, lines 32-37: the blocks of segments idx + 1 .. Len(list), in order
RECURSIVE ForEachBlock(_, _)
ForEachBlock(list, idx) ==
    IF idx >= Len(list) THEN ""
    ELSE LET seg == list[idx + 1]
             start == toVttTime(seg.start)
             end == toVttTime(seg.end)
             text == seg.text
         IN  ToString(idx + 1) \o "\n" \o start \o " --> " \o end \o "\n"
                 \o text \o "\n\n" \o ForEachBlock(list, idx + 1)

\* transcribe.js, buildVtt
buildVtt(segs, fullText) ==
    IF ~segs.present \/ Len(segs.list) = 0
      THEN IF fullText # "" THEN "WEBVTT\n\n" \o FallbackBlock(fullText)
                            ELSE "WEBVTT\n\n"
      ELSE "WEBVTT\n\n" \o ForEachBlock(segs.list, 0)

\* buildVttFromSegments, lines 588-594: the lines pushed for segments
\* i + 1 .. Len(list)
RECURSIVE PushedLines(_, _)
PushedLines(list, i) ==
    IF i >= Len(list) THEN <<>>
    ELSE LET s == list[i + 1]
         IN  <<ToString(i + 1),
               buildVttFromSegments_toVttTime(s.start) \o " --> "
                   \o buildVttFromSegments_toVttTime(s.end),
               ReplaceCRLF(s.text),
               "">> \o PushedLines(list, i + 1)

\* index.js, buildVttFromSegments (the route calls it with a non-empty array
\* only: without segments it has answered 400 before)
buildVttFromSegments(segs) ==
    Join(<<"WEBVTT", "">> \o PushedLines(segs.list, 0))

Serializers == {"buildVtt", "buildVttFromSegments"}

RenderInit ==
    /\ call \in {c \in [fn : Serializers,
                        segments : {Cues(l) : l \in RenderLists} \cup {NoCues},
                        fullText : FallbackTexts] :
                    c.fn = "buildVttFromSegments" =>
                        /\ c.segments.present
                        /\ Len(c.segments.list) > 0
                        /\ c.fullText = ""}
    /\ returned = <<>>
    /\ calledAt = <<>>
    /\ now = 0

\* a call that stamps the content with the time of the call
RenderStamped ==
    /\ call.fn \in Serializers
    /\ Len(returned) < 2
    /\ returned' =
        Append(returned,
               (IF call.fn = "buildVtt"
                  THEN buildVtt(call.segments, call.fullText)
                  ELSE buildVttFromSegments(call.segments))
                   \o "NOTE " \o ToString(now))
    /\ calledAt' = Append(calledAt, now)
    /\ UNCHANGED <<call, now>>
    /\ UNCHANGED <<cueVars, streamVars, downloadVars, routeVars, jobVars,
                   translateVars, proxyVars>>

\* one call of a serializer on the same arguments, the first or the second
Render ==
    /\ call.fn \in Serializers
    /\ Len(returned) < 2
    /\ returned' =
        Append(returned,
               IF call.fn = "buildVtt"
                 THEN buildVtt(call.segments, call.fullText)
                 ELSE buildVttFromSegments(call.segments))
    /\ calledAt' = Append(calledAt, now)
    /\ UNCHANGED <<call, now>>
    /\ UNCHANGED <<cueVars, streamVars, downloadVars, routeVars, jobVars,
                   translateVars, proxyVars>>

\* time passes
Tick ==
    /\ call.fn \in Serializers
    /\ now < MaxNow
    /\ now' = now + 1
    /\ UNCHANGED <<call, returned, calledAt>>
    /\ UNCHANGED <<cueVars, streamVars, downloadVars, routeVars, jobVars,
                   translateVars, proxyVars>>

----------------------------------------------------------------------------
(* The source-language inference of POST /translate-subtitles (lines       *)
(* 802-828), applied on its own to segment lists longer than its sample    *)

MaxHead == 3

Latin == <<104, 105>>
Devanagari == <<2344, 2350>>
Cyrillic == <<1087, 1088>>

\* a list is a head of up to MaxHead texts, then none or five equal texts,
\* then a tail of up to two texts: with a head of three and the five, the
\* tail lies behind the eighth segment
Heads == UNION {[1..n -> {Latin, Devanagari, Cyrillic}] : n \in 0..MaxHead}
Fillers == {<<>>} \cup {[k \in 1..5 |-> t] : t \in {Latin, Devanagari}}
Tails == UNION {[1..n -> {Devanagari, Cyrillic}] : n \in 0..2}
InferLists ==
    {[k \in 1..Len(h \o f \o t) |-> CueAt(k, (h \o f \o t)[k])] :
        h \in Heads, f \in Fillers, t \in Tails}

\* srcLang before the inference: normLangBackend(detectedLanguage), or
\* "auto" without a detectedLanguage
InferSources == {"auto", "en", "hi", "ru", "fr"}

InferInit ==
    /\ call \in [fn : {"inferSrcLang"}, src : InferSources, segments : InferLists]
    /\ returned = <<>>
    /\ calledAt = <<>>
    /\ now = 0

\* lines 802-828 on the srcLang and the segments of the request
Infer ==
    /\ call.fn = "inferSrcLang"
    /\ returned = <<>>
    /\ returned' = <<InferSrcLang(call.src, call.segments)>>
    /\ calledAt' = <<now>>
    /\ UNCHANGED <<call, now>>
    /\ UNCHANGED <<cueVars, streamVars, downloadVars, routeVars, jobVars,
                   translateVars, proxyVars>>

----------------------------------------------------------------------------
(* normLangBackend called on its own, then on its own result *)

NormInputs ==
    {"", "en", "EN", "En", "hi", "zz", "en-us", "EN-gb", "zh-cn", "zh-Hans",
     "pt-BR", "sr-latn", "auto", "AUTO", " Auto ", "english", "English",
     " Hindi ", "Chinese (Simplified)", "chinese traditional",
     "Chinese  Traditional", "japanese", "german", "turkish", "klingon",
     "eng", "fra", "e", "en-u", "en-usaaa", "en_US", "12", "en-", "-en",
     "tostring", "Constructor", "constructor", "__proto__"}

NormInit ==
    /\ call \in [fn : {"normLangBackend"}, l : NormInputs]
    /\ returned = <<>>
    /\ calledAt = <<>>
    /\ now = 0

\* normLangBackend(l), then normLangBackend of what it returned
Norm ==
    /\ call.fn = "normLangBackend"
    /\ Len(returned) < 2
    /\ returned' =
        Append(returned,
               normLangBackend(IF returned = <<>> THEN call.l ELSE returned[1]))
    /\ calledAt' = Append(calledAt, now)
    /\ UNCHANGED <<call, now>>
    /\ UNCHANGED <<cueVars, streamVars, downloadVars, routeVars, jobVars,
                   translateVars, proxyVars>>

----------------------------------------------------------------------------
(* The files that two requests in flight name: the temp media file of the  *)
(* acquisition (index.js: multer's filename, downloadVideoFromUrl, the     *)
(* yt-dlp branch) and the subtitle file (transcribe.js:                    *)
(* transcribeAndSaveVtt, index.js: POST /translate-subtitles).  `call`     *)
(* holds the route of each request, `returned` what each has named so far, *)
(* `now` is the value of Date.now().                                       *)

PathRoutes == {"yt", "url", "audio", "translate"}

\* Math.random().toString(36).slice(2, 8) of request k: two draws are taken
\* to differ
RandomText(k) == IF k = 1 THEN "k3x9qz" ELSE "7fh2ma"
\* Math.floor(Math.random() * 10000) of request k, likewise
RandomNumber(k) == IF k = 1 THEN 42 ELSE 4711

\* `yt-${Date.now()}.mp4`
YtOutName(t) == "yt-" \o ToString(t) \o ".mp4"

\* `${timestamp}-${random}${ext}` of downloadVideoFromUrl and of multer:
\* both write into uploadDir
TempFilename(t, random, ext) == ToString(t) \o "-" \o random \o ext

\* path.basename(filePath, path.extname(filePath)) of a multer file
UploadBasename(t, random) == ToString(t) \o "-" \o random

\* `remote-${Date.now()}`
RemoteBasename(t) == "remote-" \o ToString(t)

\* `${baseFilename}-${Date.now()}.vtt`
VttFilename(baseFilename, t) == baseFilename \o "-" \o ToString(t) \o ".vtt"

\* `translated-${tgtLang}-${Date.now()}-${Math.floor(Math.random() * 10000)}.vtt`
TranslatedFilename(lang, t, n) ==
    "translated-" \o lang \o "-" \o ToString(t) \o "-" \o ToString(n)
        \o ".vtt"

PathsInit ==
    /\ call \in [fn : {"requests"}, routes : [1..2 -> PathRoutes]]
    /\ returned = [k \in 1..2 |->
                      [pc |-> "received", temp |-> "null", base |-> "null",
                       vtt |-> "null"]]
    /\ calledAt = <<>>
    /\ now = 0

\* request k acquires its media.  yt: the temp file is named and spawnSync
\* blocks the process while yt-dlp runs, so the clock has advanced when any
\* handler runs again.  url: the remote fetch succeeds, or
\* downloadVideoFromUrl names a temp file.  audio: multer has named the
\* uploaded file.  translate: no media.  base is the baseFilename that
\* transcribeAndSaveVtt will derive: of the local file when the upload to
\* the object store failed, "remote" otherwise
Acquire(k) ==
    /\ call.fn = "requests"
    /\ returned[k].pc = "received"
    /\ IF call.routes[k] = "yt"
       THEN /\ now < MaxNow
            /\ now' = now + 1
            /\ returned' = [returned EXCEPT ![k].pc = "acquired",
                                            ![k].temp = YtOutName(now),
                                            ![k].base = "remote"]
       ELSE IF call.routes[k] = "url"
       THEN /\ \E fetched \in BOOLEAN :
                  returned' = [returned EXCEPT
                      ![k].pc = "acquired",
                      ![k].temp = IF fetched THEN "null"
                                  ELSE TempFilename(now, RandomText(k),
                                                    ".mp4"),
                      ![k].base = "remote"]
            /\ UNCHANGED now
       ELSE IF call.routes[k] = "audio"
       THEN /\ \E uploaded \in BOOLEAN :
                  returned' = [returned EXCEPT
                      ![k].pc = "acquired",
                      ![k].temp = TempFilename(now, RandomText(k), ".webm"),
                      ![k].base = IF uploaded THEN "remote"
                                  ELSE UploadBasename(now, RandomText(k))]
            /\ UNCHANGED now
       ELSE /\ returned' = [returned EXCEPT ![k].pc = "acquired"]
            /\ UNCHANGED now
    /\ UNCHANGED <<call, calledAt>>
    /\ UNCHANGED <<cueVars, streamVars, downloadVars, routeVars, jobVars,
                   translateVars, proxyVars>>

\* request k writes its subtitle file: transcribeAndSaveVtt after the await
\* of the transcriber, or POST /translate-subtitles after its loop
WriteSubtitles(k) ==
    /\ call.fn = "requests"
    /\ returned[k].pc = "acquired"
    /\ IF call.routes[k] = "translate"
       THEN returned' = [returned EXCEPT
                ![k].pc = "written",
                ![k].vtt = TranslatedFilename("hi", now, RandomNumber(k))]
       ELSE returned' = [returned EXCEPT
                ![k].pc = "written",
                ![k].vtt = VttFilename(
                    IF returned[k].base = "remote" THEN RemoteBasename(now)
                    ELSE returned[k].base, now)]
    /\ UNCHANGED <<call, calledAt, now>>
    /\ UNCHANGED <<cueVars, streamVars, downloadVars, routeVars, jobVars,
                   translateVars, proxyVars>>

\* a millisecond passes while the requests wait
ClockTick ==
    /\ call.fn = "requests"
    /\ now < MaxNow
    /\ now' = now + 1
    /\ UNCHANGED <<call, returned, calledAt>>
    /\ UNCHANGED <<cueVars, streamVars, downloadVars, routeVars, jobVars,
                   translateVars, proxyVars>>

----------------------------------------------------------------------------
(* Specifications *)

CueNext == Transcribe \/ Rebuild

\* the segments builder applied to every provider result
InitCue ==
    CueInit /\ StreamIdle /\ DownloadIdle /\ RouteIdle /\ JobIdle /\ TranslateIdle
    /\ ProxyIdle /\ VttIdle
SpecCue == InitCue /\ [][CueNext]_vars

\* one call of uploadRemoteUrlToCloudinaryStream against every remote
InitStream ==
    StreamInit /\ CueIdle /\ DownloadIdle /\ RouteIdle /\ JobIdle /\ TranslateIdle
    /\ ProxyIdle /\ VttIdle
SpecStream == InitStream /\ [][StreamNext]_vars

\* one request to one of the upload routes
InitAcquire ==
    RouteInit /\ JobInit /\ DownloadIdle /\ CueIdle /\ StreamIdle /\ TranslateIdle
    /\ ProxyIdle /\ VttIdle
SpecAcquire == InitAcquire /\ [][AcquireNext]_vars

\* the same with the timer of the poll loop firing: setTimeout(r, 2500)
\* always comes due, so a job that is polling gets its next poll
SpecAcquireFair == SpecAcquire /\ WF_vars(JobPoll)

\* one request to POST /translate-subtitles; the API key matters only for
\* the GET of a transcript
InitTranslate ==
    /\ TranslateInit /\ JobInit /\ RouteIdle /\ DownloadIdle /\ CueIdle
    /\ StreamIdle /\ ProxyIdle /\ VttIdle
    /\ body.transcriptId \/ API_KEY
SpecTranslate == InitTranslate /\ [][TranslateNext]_vars

\* one request to any of the three routes
InitPipeline == InitAcquire \/ InitTranslate
PipelineNext == AcquireNext \/ TranslateNext
SpecPipeline == InitPipeline /\ [][PipelineNext]_vars

\* one request to GET /proxy/video and a client that may drop it
InitProxy ==
    ProxyInit /\ CueIdle /\ StreamIdle /\ DownloadIdle /\ RouteIdle /\ JobIdle
    /\ TranslateIdle /\ VttIdle
SpecProxy == InitProxy /\ [][ProxyNext]_vars

\* one call of a timestamp encoder on every input of EncodeInputs
EncodeNext == Encode
InitEncode ==
    EncodeInit /\ CueIdle /\ StreamIdle /\ DownloadIdle /\ RouteIdle /\ JobIdle
    /\ TranslateIdle /\ ProxyIdle
SpecEncode == InitEncode /\ [][EncodeNext]_vars

\* a serializer called twice on the same arguments while the clock moves
RenderNext == Render \/ Tick
InitRender ==
    RenderInit /\ CueIdle /\ StreamIdle /\ DownloadIdle /\ RouteIdle /\ JobIdle
    /\ TranslateIdle /\ ProxyIdle
SpecRender == InitRender /\ [][RenderNext]_vars

\* the inference on every list of InferLists and every srcLang
InferNext == Infer
InitInfer ==
    InferInit /\ CueIdle /\ StreamIdle /\ DownloadIdle /\ RouteIdle /\ JobIdle
    /\ TranslateIdle /\ ProxyIdle
SpecInfer == InitInfer /\ [][InferNext]_vars

\* normLangBackend on every input of NormInputs
NormNext == Norm
InitNorm ==
    NormInit /\ CueIdle /\ StreamIdle /\ DownloadIdle /\ RouteIdle /\ JobIdle
    /\ TranslateIdle /\ ProxyIdle
SpecNorm == InitNorm /\ [][NormNext]_vars

PathsNext ==
    \/ \E k \in 1..2 : Acquire(k)
    \/ \E k \in 1..2 : WriteSubtitles(k)
    \/ ClockTick
InitPaths ==
    PathsInit /\ CueIdle /\ StreamIdle /\ DownloadIdle /\ RouteIdle /\ JobIdle
    /\ TranslateIdle /\ ProxyIdle
SpecPaths == InitPaths /\ [][PathsNext]_vars

----------------------------------------------------------------------------
(* Claims about the cue builder, under SpecCue *)

\* the word texts joined by single spaces
RECURSIVE JoinTexts(_)
JoinTexts(ws) ==
    IF Len(ws) = 0 THEN ""
    ELSE IF Len(ws) = 1 THEN ws[1].text
    ELSE ws[1].text \o " " \o JoinTexts(Tail(ws))

\* the segmentation the overflow rule describes: the open cue is closed
\* before the word that overflows it, and that word seeds the next cue
RECURSIVE ClosedBefore(_, _, _, _)
ClosedBefore(ws, i, open, cues) ==
    IF i > Len(ws) THEN (IF open.text # "" THEN Append(cues, open) ELSE cues)
    ELSE LET w == ws[i]
         IN  IF open.text = ""
             THEN ClosedBefore(ws, i + 1, SeedSegment(w), cues)
             ELSE IF Exceeds5(w.end, open.start)
             THEN ClosedBefore(ws, i + 1, SeedSegment(w), Append(cues, open))
             ELSE ClosedBefore(ws, i + 1,
                               [open EXCEPT !.text = @ \o " " \o w.text,
                                            !.end = w.end],
                               cues)

Spans(cues) == [k \in 1..Len(cues) |-> <<cues[k].start, cues[k].end>>]

\* C1: when a word makes (its end - cue start) > 5 s, the open cue is closed
\* before that word (it ends at the previous word's end and does not hold
\* the overflowing word's text) and the overflowing word seeds the next cue;
\* words (0,3),(3,4),(4,9) give exactly the cues [0,4] and [4,9].
C1_OverflowClosesBeforeToken ==
    (cuePc = "built" /\ Len(result.words) > 0) =>
        /\ segments = ClosedBefore(result.words, 1,
                          [start |-> 0, end |-> 0, text |-> ""], <<>>)
        /\ (Spans(result.words) = <<<<0, 3000>>, <<3000, 4000>>, <<4000, 9000>>>>
                => Spans(segments) = <<<<0, 4000>>, <<4000, 9000>>>>)

\* C2: a non-empty word list in which every word's end minus the first
\* word's start is <= 5.0 s (exactly 5.0 included) gives exactly one cue,
\* from the first word's start to the last word's end, whose text is the
\* word texts joined by single spaces.
C2_WithinFiveSecondsOneCue ==
    (/\ cuePc = "built"
     /\ Len(result.words) > 0
     /\ \A i \in 1..Len(result.words) :
            result.words[i].end - result.words[1].start <= 5000)
    => segments = <<[start |-> result.words[1].start,
                     end |-> result.words[Len(result.words)].end,
                     text |-> JoinTexts(result.words)]>>

\* C3: a single word whose own duration exceeds 5 s gives exactly one cue,
\* holding that word once.
C3_LongTokenOneCue ==
    (/\ cuePc = "built"
     /\ Len(result.words) = 1
     /\ result.words[1].end - result.words[1].start > 5000)
    => /\ Len(segments) = 1
       /\ segments[1].text = result.words[1].text

\* C4: with no words and a non-empty full text there is exactly one cue,
\* from 0 to max(audio_duration, 1 s), an absent duration counting as 0;
\* with neither words nor text there is no cue.
C4_UntimedFallback ==
    (cuePc = "built" /\ Len(result.words) = 0) =>
        IF result.text # ""
        THEN /\ Len(segments) = 1
             /\ segments[1].start = 0
             /\ segments[1].text = result.text
             /\ segments[1].end >= 1000
             /\ result.audio_duration # Absent
                    => segments[1].end >= result.audio_duration
             /\ segments[1].end \in {1000, result.audio_duration}
        ELSE segments = <<>>

\* C4 witness: a text-only result of 7 s has been turned into its one cue
C4_Witness ==
    /\ cuePc = "built"
    /\ Len(result.words) = 0
    /\ result.text # ""
    /\ result.audio_duration = 7000
    /\ Len(segments) = 1
    /\ segments[1].end = 7000

----------------------------------------------------------------------------
(* Claims about the streaming upload, under SpecStream *)

\* lower bounds 2^k s of the wait after failed attempt k, in ms
MinWait == <<2000, 4000, 8000, 16000>>

\* C7 as stated: a remote that answers HTTP 500 three times and then
\* succeeds makes the streaming strategy succeed on its 3rd attempt, with
\* every wait at least 2^attempt seconds.
C7_ThreeFailuresThenSuccess ==
    (/\ sPc \in {"returned", "thrown"}
     /\ remote[1] = "status500" /\ remote[2] = "status500"
     /\ remote[3] = "status500" /\ remote[4] = "ok")
    => /\ sPc = "returned"
       /\ attempt = 3
       /\ \A k \in 1..Len(sDelays) : sDelays[k] >= MinWait[k]

\* C7 as amended: a remote that answers HTTP 500 two times and then
\* succeeds never makes the call fail; the call goes on until it returns, it
\* returns on its 3rd attempt, after two waits of at least 2 s and 4 s.
C7_TwoFailuresThenSuccess ==
    (remote[1] = "status500" /\ remote[2] = "status500" /\ remote[3] = "ok")
    => /\ sPc # "thrown"
       /\ sPc \in {"attempting", "waiting"} => ENABLED StreamNext
       /\ sPc = "returned" =>
             /\ attempt = 3
             /\ requests = 3
             /\ Len(sDelays) = 2
             /\ sDelays[1] >= 2000
             /\ sDelays[2] >= 4000

\* C7 witness: the call has returned on attempt 3 after two answers 500
C7_Witness ==
    /\ sPc = "returned"
    /\ remote[1] = "status500" /\ remote[2] = "status500" /\ remote[3] = "ok"
    /\ attempt = 3
    /\ Len(sDelays) = 2

\* C8: at most 3 attempts in total; no attempt after the first successful
\* one; every failed attempt but the 3rd is followed by another attempt,
\* whatever the error; the wait after failed attempt k lies in
\* [2^k s, 2^k s + 500 ms]; no wait follows the last failed attempt.
C8_StreamRetryBound ==
    /\ requests <= 3
    /\ attempt = requests
    /\ \A k \in 1..(requests - 1) : remote[k] # "ok"
    /\ sPc = "returned" => remote[requests] = "ok"
    /\ sPc = "thrown" =>
          /\ requests = 3
          /\ \A k \in 1..3 : remote[k] # "ok"
    /\ Len(sDelays) = (IF sPc = "waiting" THEN requests
                       ELSE IF requests = 0 THEN 0 ELSE requests - 1)
    /\ \A k \in 1..Len(sDelays) :
          /\ sDelays[k] >= MinWait[k]
          /\ sDelays[k] <= MinWait[k] + 500

\* C8 witness: three attempts failed with a network, a status and a stream
\* error, two waits were slept and the call has thrown
C8_Witness ==
    /\ sPc = "thrown"
    /\ remote[1] = "network" /\ remote[2] = "status500"
    /\ remote[3] = "stream-error"
    /\ requests = 3
    /\ sDelays = <<2250, 4500>>

----------------------------------------------------------------------------
(* Claims about acquisition, under SpecAcquire *)

\* C5: once the response of POST /upload-from-url or POST /upload-audio has
\* been sent, whatever step failed or succeeded, no local temp media file
\* of the request exists any more.
C5_TempFilesRemoved ==
    rPc = "responded" => \A p \in Paths : disk[p] = Absent

\* C6: when the object store's remote fetch fails, the streaming strategy
\* is attempted next, and the download to local disk is attempted only
\* after the streaming strategy has exhausted its retries.
C6_StreamingBeforeDownload ==
    \A i \in 1..Len(calls) :
        calls[i] = "download" =>
            /\ i > 1
            /\ calls[i - 1] = "stream"
            /\ sPc = "thrown"

\* C9: when the response's Content-Length exceeds the 800 MB cap,
\* downloadVideoFromUrl fails, and no local file has been created and no
\* byte written.
C9_DeclaredSizeOverCap ==
    (dPc \notin {"idle", "requesting"} /\ dHeader > MAX_BYTES)
    => /\ dPc = "thrown"
       /\ ~dCreated
       /\ disk["dl"] = Absent

\* C9 witness: a 2xx response declaring one byte more than the cap has
\* made the download fail
C9_Witness ==
    /\ dPc = "thrown"
    /\ dHeader = MAX_BYTES + 1
    /\ dErr = "Remote file too large"

\* C10: when downloadVideoFromUrl fails, no file exists at its target path
\* when the error reaches the caller; when it succeeds, the returned path
\* exists and its size is > 0 and <= 800 MB.
C10_DownloadPostcondition ==
    rPc = "downloading" =>
        /\ dPc = "thrown" => disk["dl"] = Absent
        /\ dPc = "returned" =>
              /\ disk["dl"] # Absent
              /\ disk["dl"] > 0
              /\ disk["dl"] <= MAX_BYTES

\* C10 witness: the download failed while the body was being written to
\* the file it had created, and the caller has not resumed yet
C10_Witness ==
    /\ rPc = "downloading"
    /\ dPc = "thrown"
    /\ dCreated
    /\ dErr = "aborted"

----------------------------------------------------------------------------
(* Claims about URL validation, under SpecAcquire *)

\* the hosts the validation rule names: loopback names and addresses, the
\* IPv6 loopback, the private IPv4 ranges
StartsWith(s, prefix) ==
    Len(s) >= Len(prefix) /\ SubSeq(s, 1, Len(prefix)) = prefix

NamesLoopbackOrPrivate(h) ==
    \/ h \in {"localhost", "127.0.0.1", "[::1]", "::1"}
    \/ StartsWith(h, "10.")
    \/ StartsWith(h, "192.168.")
    \/ \E n \in 16..31 : StartsWith(h, "172." \o ToString(n) \o ".")

\* the URLs the validation rule rejects
MustBeRejected(u) ==
    \/ u = ""
    \/ ~ParseUrl(u).ok
    \/ ParseUrl(u).protocol \notin {"http:", "https:"}
    \/ NamesLoopbackOrPrivate(ParseUrl(u).hostname)

\* C20: a request to /upload-from-url whose URL is missing, does not parse,
\* has another scheme than http/https or names a loopback or private host
\* never starts yt-dlp, a Cloudinary call or a download, and its response is
\* the 400 of the URL checks
C20_BadUrlRejectedFirst ==
    (req.handler \in UrlHandlers /\ MustBeRejected(req.input)) =>
        /\ calls = <<>>
        /\ rPc = "responded" =>
              /\ response.status = 400
              /\ response.error \in {"Missing URL", "Invalid or disallowed URL"}

----------------------------------------------------------------------------
(* Claims about the transcription job, under SpecAcquire *)

\* C15: after a successful submit the job is polling; a poll that finds
\* queued or processing leaves it polling; it becomes completed only by a
\* poll that finds completed and failed only by a poll that finds error;
\* once completed or failed it does not change and issues no poll
C15_JobStateMachine ==
    [][/\ (jobPc = "submit" /\ provider' # "none") => jobPc' = "polling"
       /\ (JobPoll /\ provider \in {"queued", "processing"}) =>
              jobPc' = "polling"
       /\ (jobPc # "completed" /\ jobPc' = "completed") =>
              JobPoll /\ provider = "completed" /\ resultStatus' = "completed"
       /\ (jobPc # "failed" /\ jobPc' = "failed") =>
              JobPoll /\ provider = "error" /\ resultStatus' = "error"
       /\ jobPc \in {"completed", "failed"} =>
              UNCHANGED <<jobPc, polls, submits, resultStatus>>]_vars

\* a job that completed on its second poll or later, request answered
C15_Witness ==
    /\ jobPc = "completed"
    /\ polls = MaxPolls
    /\ rPc = "responded"

\* C16 as stated: the message of a failed job is the provider's error
\* message and nothing else
C16_MessageVerbatim ==
    jobPc = "failed" => jobErr = resultError

\* C16 as the code has it: the message of a failed job, and the error of
\* the response that ends the request, is the provider's error message,
\* unchanged, after the fixed text "AssemblyAI transcription failed: "
C16_MessagePrefixed ==
    jobPc = "failed" =>
        /\ jobErr = "AssemblyAI transcription failed: " \o resultError
        /\ resultError \in ProviderErrors
        /\ rPc = "responded" => response.error = jobErr

\* a request answered with the message of a failed job
C16_Witness ==
    /\ jobPc = "failed"
    /\ rPc = "responded"
    /\ response.error =
          "AssemblyAI transcription failed: Audio could not be decoded"

\* C17: the job issues at most one submit, and once it has thrown (submit
\* not ok, error status, any other failure) it issues no submit and no poll
C17_NoJobRetry ==
    [][/\ submits' <= 1
       /\ jobPc \in {"failed", "aborted"} =>
              UNCHANGED <<jobPc, submits, polls, resultStatus>>]_vars

\* a request answered after its one submit was not ok
C17_Witness ==
    /\ jobPc = "aborted"
    /\ submits = 1
    /\ jobErr = "AssemblyAI transcript submit failed: Bad Request"
    /\ rPc = "responded"

----------------------------------------------------------------------------
(* Claim about the end of polling, under SpecAcquireFair *)

\* C18: once the transcript is completed or in error at the provider the
\* job comes to an end; as long as every poll finds a status that is not
\* final the job that is polling goes on polling: nothing else ends it
C18_PollingTermination ==
    /\ (provider \in {"completed", "error"}) ~> (jobPc \in JobTerminal)
    /\ [](provider \notin {"completed", "error", "unreachable"}) =>
          [](jobPc = "polling" => [](jobPc = "polling"))

\* a job still polling after MaxPolls polls of a transcript in progress
C18_Witness ==
    /\ jobPc = "polling"
    /\ polls = MaxPolls
    /\ resultStatus = "processing"
    /\ provider = "processing"

----------------------------------------------------------------------------
(* Claims about POST /translate-subtitles, under SpecTranslate *)

\* the handler has resolved both languages and they are the same language,
\* whatever the case of their letters, and not "auto"
ResolvedSame ==
    /\ xPc \notin {"idle", "received", "fetching"}
    /\ tgtLang # "null"
    /\ srcLang # "null"
    /\ toLowerCase(srcLang) # "auto"
    /\ toLowerCase(tgtLang) # "auto"
    /\ toLowerCase(srcLang) = toLowerCase(tgtLang)

\* success with the cues of the request, no provider called
SkippedWith(cues) ==
    /\ providerCalls = 0
    /\ xPc = "responded" => tResponse.ok /\ tResponse.segments = cues

\* C11 as stated: whenever the resolved source language is the target
\* language the request succeeds with its input cues unchanged and no
\* translation provider is called
C11_SameLanguageSkip ==
    ResolvedSame => SkippedWith(body.segments)

\* C11 for a request that carries cues: whenever the resolved source
\* language is the target language, no translation provider is called and
\* the request succeeds with output cues equal to the cues of the request
C11_SameLanguageSkipWithCues ==
    (ResolvedSame /\ Len(body.segments) > 0) =>
        /\ SkippedWith(body.segments)
        /\ xPc \in {"writing-unchanged", "responded"}

\* a request with cues, target "HI", detected "hi", answered
C11_Witness ==
    /\ ResolvedSame
    /\ body.targetLang = "HI"
    /\ body.detectedLanguage = "hi"
    /\ Len(body.segments) = MaxCues
    /\ xPc = "responded"
    /\ tResponse.ok
    /\ tResponse.segments = body.segments

\* every provider called for the current segment gave no text, and all of
\* them were called
AllProvidersFailed(cs) ==
    /\ Len(cs) = 1 + Len(MIRRORS)
    /\ \A k \in 1..Len(cs) : cs[k].text = <<>>

\* C12: a segment for which MyMemory and every mirror failed or gave no
\* text is pushed with its input text; the loop goes on with the next
\* segment; the request that went through the loop ends in the 200
\* response carrying one output segment for every input segment
C12_DegradesToInputText ==
    /\ [][(translated' # translated /\ AllProvidersFailed(cueCalls')) =>
             /\ Len(translated') = segIndex
             /\ translated'[segIndex].text = toTranslateSegments[segIndex].text
             /\ xPc' = "sleep"]_vars
    /\ [][(xPc = "sleep" /\ segIndex < Len(toTranslateSegments)) =>
             (xPc' = "primary" /\ segIndex' = segIndex + 1)]_vars
    /\ []((xPc = "responded" /\ providerCalls > 0) =>
             /\ tResponse.ok
             /\ Len(tResponse.segments) = Len(toTranslateSegments))

\* a request of MaxCues segments answered with success, all providers
\* having failed for the last segment, which keeps its text
C12_Witness ==
    /\ xPc = "responded"
    /\ tResponse.ok
    /\ Len(body.segments) = MaxCues
    /\ AllProvidersFailed(cueCalls)
    /\ body.segments[MaxCues].text # <<>>
    /\ tResponse.segments[MaxCues].text = body.segments[MaxCues].text
    /\ tResponse.segments[1].text # body.segments[1].text

\* the i-th cue of out has the fields, start and end of the i-th cue of in
SameTimes(out, in) ==
    \A i \in 1..Len(out) :
        /\ i <= Len(in)
        /\ DOMAIN out[i] = DOMAIN in[i]
        /\ out[i].start = in[i].start
        /\ out[i].end = in[i].end

\* C13: the output of a translation run has as many cues as the input,
\* the i-th with the start and end of the i-th input cue, and the input
\* array (the request's segments, and the array the handler works on) is
\* never changed
C13_TranslationFrame ==
    /\ [](SameTimes(translated, toTranslateSegments))
    /\ [](tResponse.ok =>
             /\ Len(tResponse.segments) = Len(toTranslateSegments)
             /\ SameTimes(tResponse.segments, toTranslateSegments))
    /\ []((xPc \notin {"idle", "received", "fetching"} /\ tgtLang # "null"
              /\ Len(body.segments) > 0) =>
             toTranslateSegments = body.segments)
    /\ [][/\ body' = body
          /\ xPc \notin {"received", "fetching"} =>
                toTranslateSegments' = toTranslateSegments]_vars

\* a translated run of MaxCues cues whose last cue got another text
C13_Witness ==
    /\ xPc = "responded"
    /\ tResponse.ok
    /\ Len(tResponse.segments) = MaxCues
    /\ tResponse.segments[MaxCues].text # body.segments[MaxCues].text
    /\ tResponse.segments[MaxCues].start = body.segments[MaxCues].start
    /\ tResponse.segments[MaxCues].start > 0

----------------------------------------------------------------------------
(* Claim about failed requests, under SpecPipeline *)

----------------------------------------------------------------------------
(* Claim about missing credentials, under SpecAcquire *)

\* C21: a request handled while the transcription provider's API key is
\* missing issues no call over the network (no yt-dlp, no Cloudinary
\* upload or fetch, no download) and, once answered, has failed
C21_ConfigFailFast ==
    ~API_KEY =>
        /\ calls = <<>>
        /\ rPc = "responded" => response.status \in {400, 500}

----------------------------------------------------------------------------
(* Claim about the video proxy, under SpecProxy *)

\* C22: once the client has aborted and the handler is past its await of
\* the upstream GET, the upstream fetch is not running: it is neither
\* pending nor an open stream (it was destroyed, or had finished before)
C22_AbortDestroysUpstream ==
    (clientAborted /\ pPc # "awaiting") => upstream \notin {"pending", "open"}

----------------------------------------------------------------------------
(* Claims about the timestamp encoders, under SpecEncode *)

RECURSIVE ZeroPadded(_, _)
ZeroPadded(s, width) == IF Len(s) >= width THEN s ELSE ZeroPadded("0" \o s, width)

\* HH:MM:SS.mmm of T whole milliseconds, T >= 0, as the rule decomposes it
Decomposed(T) ==
    ZeroPadded(ToString(T \div 3600000), 2) \o ":"
        \o ZeroPadded(ToString((T % 3600000) \div 60000), 2) \o ":"
        \o ZeroPadded(ToString((T % 60000) \div 1000), 2) \o "."
        \o ZeroPadded(ToString(T % 1000), 3)

Encoded == call.fn \in Encoders /\ returned # <<>>

\* C23: for an input of T whole milliseconds, T >= 0, an encoder returns
\* HH:MM:SS.mmm with HH = T div 3600000 (as wide as needed), MM, SS and mmm
\* the remaining minutes, seconds and milliseconds, zero-padded to 2/2/2/3
C23_Decomposition ==
    (Encoded /\ call.arg.t = "number" /\ call.arg.ms >= 0) =>
        returned[1] = Decomposed(call.arg.ms)

\* C24: for a negative, NaN or non-numeric input every encoder returns
\* 00:00:00.000
C24_InvalidInputIsZero ==
    (Encoded /\ (call.arg.t # "number" \/ call.arg.ms < 0)) =>
        returned[1] = "00:00:00.000"

----------------------------------------------------------------------------
(* Claims about the serializers, under SpecRender *)

Rendered == call.fn \in Serializers /\ returned # <<>>
HasCues == call.segments.present /\ Len(call.segments.list) > 0

\* the timing line of a cue, by the encoder of the serializer called
TimingLine(cue) ==
    IF call.fn = "buildVtt"
      THEN toVttTime(cue.start) \o " --> " \o toVttTime(cue.end)
      ELSE buildVttFromSegments_toVttTime(cue.start) \o " --> "
               \o buildVttFromSegments_toVttTime(cue.end)

From1(s, k) == SubSeq(s, k, Len(s))

\* the positions of s at which sub occurs, and their number
Positions(s, sub) ==
    {k \in 1..Len(s) :
        k + Len(sub) - 1 <= Len(s) /\ SubSeq(s, k, k + Len(sub) - 1) = sub}
Occurrences(s, sub) == Cardinality(Positions(s, sub))

RECURSIVE StripBreaks(_)
StripBreaks(s) == IF StartsWith(s, "\n") THEN StripBreaks(From1(s, 2)) ELSE s

\* rest is made of the blocks of cues k .. Len(list), in this order: number,
\* timing, text (as given or with CR LF as one line break), line breaks
RECURSIVE BlocksInOrder(_, _, _)
BlocksInOrder(rest, list, k) ==
    IF k > Len(list) THEN rest = ""
    ELSE \E text \in {list[k].text, ReplaceCRLF(list[k].text)} :
            LET head == ToString(k) \o "\n" \o TimingLine(list[k]) \o "\n" \o text
                after == From1(rest, Len(head) + 1)
            IN  /\ StartsWith(rest, head)
                /\ after = "" \/ StartsWith(after, "\n")
                /\ BlocksInOrder(StripBreaks(after), list, k + 1)

\* C25: the content rendered for n >= 1 cues has exactly n blocks, and its
\* k-th block carries the number k and the timing and text of the k-th cue
C25_OrderAndNumbering ==
    (Rendered /\ HasCues) =>
        \A i \in 1..Len(returned) :
            /\ StartsWith(returned[i], "WEBVTT\n\n")
            /\ Occurrences(returned[i], " --> ") = Len(call.segments.list)
            /\ BlocksInOrder(From1(returned[i], 9), call.segments.list, 1)

C25_Witness ==
    /\ Rendered
    /\ Len(call.segments.list) = 3
    /\ call.segments.list[1] # call.segments.list[2]
    /\ call.segments.list[2] # call.segments.list[3]
    /\ call.segments.list[1] # call.segments.list[3]

\* C26: the content rendered by either serializer holds no CR LF pair
C26_NoCRLF ==
    Rendered => \A i \in 1..Len(returned) : Occurrences(returned[i], "\r\n") = 0

\* the header, a blank line, then index, start --> end, text and a blank
\* line for each cue, the last one included
RECURSIVE Blocks(_, _)
Blocks(list, k) ==
    IF k > Len(list) THEN ""
    ELSE ToString(k) \o "\n" \o TimingLine(list[k]) \o "\n" \o list[k].text
             \o "\n\n" \o Blocks(list, k + 1)

\* C27: for cues whose texts hold no CR LF (and no fallback text in play),
\* the content is WEBVTT, a blank line, and for each cue, the last included,
\* index, start --> end, text, each followed by a line break, and a blank line
C27_FileContent ==
    (/\ Rendered
     /\ call.segments.present
     /\ HasCues \/ call.fullText = ""
     /\ \A k \in 1..Len(call.segments.list) :
            Occurrences(call.segments.list[k].text, "\r\n") = 0) =>
        \A i \in 1..Len(returned) :
            returned[i] = "WEBVTT\n\n" \o Blocks(call.segments.list, 1)

C29_DegenerateMode ==
    (Rendered /\ call.fn = "buildVtt" /\ ~HasCues) =>
        \A i \in 1..Len(returned) :
            returned[i] =
                IF call.fullText # ""
                  THEN "WEBVTT\n\n1\n00:00:00.000 --> 01:00:00.000\n"
                           \o call.fullText \o "\n\n"
                  ELSE "WEBVTT\n\n"

C29_Witness ==
    /\ Rendered
    /\ call.fn = "buildVtt"
    /\ ~call.segments.present
    /\ call.fullText # ""
    /\ Occurrences(returned[1], " --> ") = 1

----------------------------------------------------------------------------
(* Claim about the source-language inference, under SpecInfer *)

Inferred == call.fn = "inferSrcLang" /\ returned # <<>>
Scripts == {"hi", "ru", "ar", "zh-CN", "th", "he"}

\* the votes for g among the first m segments of the request
VotesIn(m, g) ==
    Cardinality({i \in 1..m :
        detectScriptFromTextSample(call.segments[i].text) = g})
Sampled == IF Len(call.segments) < 8 THEN Len(call.segments) ELSE 8

\* C30: the inference changes the source language only when it is "auto"
\* (also standing for an absent one) or "en"; the language adopted has the
\* most votes among the first min(8, n) cues; the result is the one the
\* first min(8, n) cues alone give; without a vote the language is kept
C30_Inference ==
    Inferred =>
        /\ call.src \notin {"auto", "en"} => returned[1] = call.src
        /\ returned[1] # call.src =>
              /\ VotesIn(Sampled, returned[1]) > 0
              /\ \A g \in Scripts : VotesIn(Sampled, g) <= VotesIn(Sampled, returned[1])
        /\ \A g \in Scripts \ {call.src} :
              (/\ call.src \in {"auto", "en"}
               /\ VotesIn(Sampled, g) > 0
               /\ \A h \in Scripts \ {g} : VotesIn(Sampled, h) < VotesIn(Sampled, g))
                  => returned[1] = g
        /\ returned[1] = InferSrcLang(call.src, SubSeq(call.segments, 1, Sampled))
        /\ (\A g \in Scripts : VotesIn(Sampled, g) = 0) => returned[1] = call.src

\* a language adopted against the majority of the whole list, which the
\* cues behind the eighth would have turned
C30_Witness ==
    /\ Inferred
    /\ Len(call.segments) > 8
    /\ returned[1] # call.src
    /\ \E g \in Scripts :
          VotesIn(Len(call.segments), g) > VotesIn(Len(call.segments), returned[1])

----------------------------------------------------------------------------
(* Claim about normLangBackend, under SpecNorm *)

\* the names the language map recognises
RecognizedNames ==
    {"english", "en", "hindi", "hi", "spanish", "es", "french", "fr",
     "chinese", "chinese_simplified", "chinese_traditional", "japanese", "ja",
     "korean", "ko", "german", "de", "italian", "it", "portuguese", "pt",
     "russian", "ru", "arabic", "ar", "turkish", "tr"}

\* C31: normLangBackend gives a 2-letter code in lower case, a code with a
\* region as lower-case language, hyphen, upper-case region, a recognised
\* name as its mapped code and every other input as "auto"; applied to its
\* own result it returns that result
C31_Normalization ==
    (call.fn = "normLangBackend" /\ returned # <<>>) =>
        LET s == trim(call.l)
            name == MapKey(toLowerCase(s), FALSE)
        IN  /\ returned[1] =
                  IF Len(s) = 2 /\ AllLetters(s) THEN toLowerCase(s)
                  ELSE IF IsCode(s)
                  THEN toLowerCase(SubSeq(s, 1, 2)) \o "-" \o toUpperCase(From(s, 4))
                  ELSE IF name \in RecognizedNames THEN LANG_MAP_BACKEND[name]
                  ELSE "auto"
            /\ Len(returned) = 2 => returned[2] = returned[1]

----------------------------------------------------------------------------
(* Claim about the translation loop, under SpecTranslate *)

\* a provider call is awaited: the GET to MyMemory or the POST to a mirror
CallInFlight == xPc \in {"primary", "mirror"}

\* C32: the one provider call in flight is for the cue at segIndex and all
\* the cues before it have their result in the output, each at the position
\* of its cue (same start and end)
C32_Sequential ==
    /\ CallInFlight => Len(translated) = segIndex - 1
    /\ Len(translated) <= Len(toTranslateSegments)
    /\ \A k \in 1..Len(translated) :
          /\ translated[k].start = toTranslateSegments[k].start
          /\ translated[k].end = toTranslateSegments[k].end

C32_Witness ==
    /\ CallInFlight
    /\ segIndex = 2
    /\ Len(translated) = 1
    /\ providerCalls > 1

----------------------------------------------------------------------------
(* Claim about the message of a failed acquisition, under SpecAcquire *)

\* the request was answered with a failure before any transcription was
\* called: every strategy tried for it has failed
AcquisitionFailed ==
    /\ req.handler \in UrlHandlers
    /\ rPc = "responded"
    /\ response.status = 400
    /\ calls # <<>>
    /\ \A k \in 1..Len(calls) : calls[k] # "transcribe"

\* C33: a request whose acquisition failed is answered with the message of
\* the last error that its strategies raised
C33_LastUnderlyingError ==
    (AcquisitionFailed /\ errors # <<>>) =>
        response.error = errors[Len(errors)]

----------------------------------------------------------------------------
(* Claims about the cues of both builders, under SpecCue *)

CuesBuilt == cuePc \in {"built", "rebuilt"}

\* C34: every cue built from words with end >= start, in temporal order,
\* has a start >= 0 and an end >= its start (a time that is NaN is neither)
C34_CueBounds ==
    CuesBuilt =>
        \A k \in 1..Len(segments) :
            /\ segments[k].start >= 0
            /\ segments[k].end >= segments[k].start

\* the texts of the cues, joined by single spaces, and the texts of the
\* words, joined by single spaces
CueTextsJoined == JoinTexts(segments)
WordTextsJoined == JoinTexts(result.words)

\* C37: the cue texts joined by single spaces in order are the word texts
\* joined by single spaces: no word is lost or repeated
C37_TokenConservation ==
    (CuesBuilt /\ Len(result.words) > 0) => CueTextsJoined = WordTextsJoined

\* C38: of two consecutive cues built by transcribe.js the later one starts
\* at or after the end of the earlier one, and after its start
C38_NoOverlap ==
    (cuePc = "built" /\ Len(result.words) > 0) =>
        \A k \in 1..(Len(segments) - 1) :
            /\ segments[k + 1].start >= segments[k].end
            /\ segments[k + 1].start > segments[k].start

----------------------------------------------------------------------------
(* Claim about the encoders together, under SpecEncode *)

\* C39: for a non-negative input of whole milliseconds the string an encoder
\* returns is the string each of the other encoders returns for that input
C39_EncoderAgreement ==
    (Encoded /\ call.arg.t = "number" /\ call.arg.ms >= 0) =>
        /\ returned[1] = toVttTime(call.arg)
        /\ returned[1] = secToVttTimestamp(call.arg)
        /\ returned[1] = buildVttFromSegments_toVttTime(call.arg)

----------------------------------------------------------------------------
(* Claims about the order of the steps of a request, under SpecAcquire *)

\* the first call of the request was fetchRemoteToCloudinary and it
\* succeeded: transcribeAndSaveVtt is the call that follows it
FetchSucceeded ==
    /\ req.handler \in UrlHandlers
    /\ Len(calls) >= 2
    /\ calls[1] = "fetch"
    /\ calls[2] = "transcribe"

JobRunning == jobPc \in {"upload", "submit", "polling"}

\* every strategy of the acquisition has settled
AcquisitionFinished ==
    /\ rPc \in {"transcribing", "responded"}
    /\ dPc \in {"idle", "returned", "thrown"}
    /\ calls # <<>>
    /\ calls[Len(calls)] = "transcribe"

\* C36: the transcription is started and the job submitted only after the
\* acquisition has finished; a subtitle file is on disk only when the job
\* has completed; while the transcriber is at work the local temp file of
\* the request is still there
C36_StepOrdering ==
    /\ (jobPc # "idle" \/ submits > 0) => AcquisitionFinished
    /\ subtitles # {} => jobPc = "completed" /\ rPc = "responded"
    /\ (JobRunning /\ tempFile # "null") =>
           /\ disk[tempFile] # Absent
           /\ rPc = "transcribing"

C36_Witness ==
    /\ req.handler = "index:/upload-audio"
    /\ calls = <<"upload", "transcribe">>
    /\ cloudResult = "null"
    /\ jobPc = "completed"
    /\ rPc = "responded"
    /\ subtitles = {"upload.vtt"}
    /\ disk["upload"] = Absent

----------------------------------------------------------------------------
(* Claim about the files of two requests, under SpecPaths *)

\* C40: two requests in flight together, also when they read the same
\* clock value, name distinct temp media files and distinct subtitle files
C40_FileIsolation ==
    call.fn = "requests" =>
        /\ (returned[1].temp # "null" /\ returned[2].temp # "null") =>
               returned[1].temp # returned[2].temp
        /\ (returned[1].vtt # "null" /\ returned[2].vtt # "null") =>
               returned[1].vtt # returned[2].vtt

====
